---- MODULE Spec2Model ----
(***************************************************************************)
(* dnsr: an iterative, caching DNS resolver.                               *)
(*                                                                         *)
(* Domain names are sequences of labels, leftmost label first; the root    *)
(* "." is the empty sequence.  Every record value (an IP address, the      *)
(* target of an NS or CNAME record) is a sequence of labels as well, so    *)
(* that records are comparable.                                            *)
(*                                                                         *)
(* The specifications of this module share its definitions:                *)
(*   SpecCache    the cache alone, under arbitrary add/addNX/deleteNX/get  *)
(*   SpecLock     the operations of the cache step by step, under the lock *)
(*   SpecOps      the cache under add, addNX and get, with the last one    *)
(*   SpecSave     saveDNSRR applied to arbitrary responses                 *)
(*   Spec         the resolver: resolve, iterateParents, exchange,         *)
(*                exchangeIP, resolveCNAMEs, as tasks with call stacks     *)
(*   SpecQuery    exchangeIP alone: the query, UDP, TCP, the glue loop     *)
(*   SpecDepth    one chain of calls and its depth                         *)
(*   SpecExchange the loop of exchange over the addresses of a host        *)
(*   SpecRoot     the resolver's cache next to the root hints              *)
(*   SpecChan     one iterateParents, its goroutines and its channels      *)
(*   FairChan     SpecChan under a fair scheduler                          *)
(*   SpecHost     one call, with the lookup of the name server's host      *)
(*   SpecExpiry   cacheGet on the cache of an expiring resolver            *)
(***************************************************************************)
EXTENDS Integers, Sequences, FiniteSets, TLC

VARIABLES
    cache,      \* the resolver's cache: [capacity, expire, entries]
    now,        \* the clock (time.Now())
    got,        \* SpecCache, SpecSave: the key and the result of the last get / saveDNSRR
    timeout,    \* Spec: the resolver's timeout
    tasks,      \* Spec: the caller's thread (0) and the exchange goroutines
    chans,      \* Spec: chanRRs and chanErrs of every iterateParents in progress
    cur,        \* Spec: the call in progress
    last        \* Spec: what the last call returned, until the next call

\* ------------------------------------------------------------------ names

Root == <<>>

\* strings.ToLower on one label: the labels of the model and their lower case
LowerOf(l) ==
    CASE l = "COM" -> "com"
      [] l = "X"   -> "x"
      [] OTHER     -> l

RECURSIVE LowerLabels(_)
LowerLabels(n) ==
    IF n = <<>> THEN <<>> ELSE <<LowerOf(Head(n))>> \o LowerLabels(Tail(n))

\* dns.Fqdn(strings.ToLower(name)): a label sequence is always fully qualified
toLowerFQDN(name) == LowerLabels(name)

\* parent strips the leftmost label; the root has no parent
parent(name) ==
    IF name = Root THEN [name |-> Root, ok |-> FALSE]
    ELSE [name |-> toLowerFQDN(Tail(name)), ok |-> TRUE]

\* dns.CountLabel
CountLabel(name) == Len(name)

\* dns.CompareDomainName: the number of trailing labels two names share
RECURSIVE CompareDomainName(_, _)
CompareDomainName(a, b) ==
    IF a = <<>> \/ b = <<>> THEN 0
    ELSE IF a[Len(a)] # b[Len(b)] THEN 0
    ELSE 1 + CompareDomainName(SubSeq(a, 1, Len(a) - 1), SubSeq(b, 1, Len(b) - 1))

\* ------------------------------------------------------------------ records

\* RR{Name, Type, Value, Expiry}; Expiry 0 is the zero time (no expiry)
RR(name, type, value, expiry) ==
    [Name |-> name, Type |-> type, Value |-> value, Expiry |-> expiry]

\* A slice of records: nil, or a (possibly empty) sequence
NilRRs == [nil |-> TRUE, s |-> <<>>]
emptyRRs == [nil |-> FALSE, s |-> <<>>]
MkRRs(s) == [nil |-> FALSE, s |-> s]
\* append(rrs, x...): appending nothing to nil leaves nil
AppendRRs(rrs, s) == IF s = <<>> THEN rrs ELSE [nil |-> FALSE, s |-> rrs.s \o s]

\* A map iterated in an order: the elements of a set as a sequence
RECURSIVE SetToSeq(_)
SetToSeq(S) ==
    IF S = {} THEN <<>>
    ELSE LET x == CHOOSE y \in S : TRUE IN <<x>> \o SetToSeq(S \ {x})

SeqToSet(s) == {s[i] : i \in 1..Len(s)}

RECURSIVE SelectSeqRR(_, _)
SelectSeqRR(s, t) ==
    IF s = <<>> THEN <<>>
    ELSE (IF Head(s).Type = t THEN <<Head(s)>> ELSE <<>>) \o SelectSeqRR(Tail(s), t)

\* ------------------------------------------------------------------ cache

MinCacheCapacity == 1000

\* An entry of the map: nil (written by addNX) or a map of records
NilEntry == [nil |-> TRUE, rrs |-> {}]
MapEntry(S) == [nil |-> FALSE, rrs |-> S]

\* sync.RWMutex: w while a writer holds it, r the number of readers
Unlocked == [w |-> FALSE, r |-> 0]

newCacheAsGiven(capacity, expire) ==
    [capacity |-> capacity, expire |-> expire, m |-> Unlocked, entries |-> << >>]

\* newCache: a capacity that is not positive becomes MinCacheCapacity
newCache(capacity, expire) ==
    [capacity |-> IF capacity <= 0 THEN MinCacheCapacity ELSE capacity,
     expire   |-> expire,
     m        |-> Unlocked,
     entries  |-> << >>]

Has(entries, k) == k \in DOMAIN entries
Put(entries, k, e) == [x \in (DOMAIN entries) \cup {k} |-> IF x = k THEN e ELSE entries[x]]
Del(entries, k) == [x \in (DOMAIN entries) \ {k} |-> entries[x]]
NumKeys(c) == Cardinality(DOMAIN c.entries)

Expired(rr, t) == rr.Expiry # 0 /\ rr.Expiry < t

SweepOneAny(entries, k, t) == Del(entries, k)

\* One iteration of the sweep of _evict on key k: drop the expired records
\* of the entry, then the entry itself if nothing is left in it
SweepOne(entries, k, t) ==
    LET live == {rr \in entries[k].rrs : ~Expired(rr, t)}
    IN  IF live = {} THEN Del(entries, k)
        ELSE Put(entries, k, [nil |-> entries[k].nil, rrs |-> live])

\* "for k, e := range c.entries" of the sweep, in every iteration order,
\* returning as soon as len(c.entries) < c.capacity.  done tells whether the
\* loop returned; the keys in rem are still to be visited.
RECURSIVE SweepOutcomes(_, _, _, _)
SweepOutcomes(entries, rem, capacity, t) ==
    IF rem = {} THEN {[done |-> FALSE, entries |-> entries]}
    ELSE UNION { LET e1 == SweepOne(entries, k, t)
                 IN  IF Cardinality(DOMAIN e1) < capacity
                     THEN {[done |-> TRUE, entries |-> e1]}
                     ELSE SweepOutcomes(e1, rem \ {k}, capacity, t)
                 : k \in rem }

RandomOutcomesAll(entries, rem, capacity) == {<< >>}

\* "for k := range c.entries { delete(c.entries, k) ... }", in every order
RECURSIVE RandomOutcomes(_, _, _)
RandomOutcomes(entries, rem, capacity) ==
    IF rem = {} THEN {entries}
    ELSE UNION { LET e1 == Del(entries, k)
                 IN  IF Cardinality(DOMAIN e1) < capacity THEN {e1}
                     ELSE RandomOutcomes(e1, rem \ {k}, capacity)
                 : k \in rem }

_evictNone(c, t) == {c.entries}

_evictAll(c, t) == IF NumKeys(c) < c.capacity THEN {c.entries} ELSE {<< >>}

\* _evict: the set of maps it may leave
_evict(c, t) ==
    IF NumKeys(c) < c.capacity THEN {c.entries}
    ELSE LET swept == IF c.expire
                      THEN SweepOutcomes(c.entries, DOMAIN c.entries, c.capacity, t)
                      ELSE {[done |-> FALSE, entries |-> c.entries]}
         IN  UNION { IF o.done THEN {o.entries}
                     ELSE RandomOutcomes(o.entries, DOMAIN o.entries, c.capacity)
                     : o \in swept }

_addSticky(c, qname, rr, t) ==
    IF Has(c.entries, qname) /\ c.entries[qname].nil THEN {c}
    ELSE { [c EXCEPT !.entries =
               Put(ents, qname,
                   MapEntry((IF Has(c.entries, qname) THEN c.entries[qname].rrs ELSE {})
                            \cup {rr}))]
           : ents \in (IF Has(c.entries, qname) THEN {c.entries} ELSE {c.entries}) }

_addEntryEvict(c, qname, t) ==
    { [c EXCEPT !.entries = IF Has(ents, qname) THEN ents ELSE Put(ents, qname, NilEntry)]
      : ents \in RandomOutcomes(c.entries, DOMAIN c.entries, c.capacity) }

\* _add: evict when the key is new, make the map when the entry is nil or
\* missing, insert the record.  e is read before _evict runs.
_add(c, qname, rr, t) ==
    LET ok == Has(c.entries, qname)
        e  == IF ok THEN c.entries[qname] ELSE NilEntry
    IN  { [c EXCEPT !.entries =
              Put(ents, qname, MapEntry((IF e.nil THEN {} ELSE e.rrs) \cup {rr}))]
          : ents \in (IF ok THEN {c.entries} ELSE _evict(c, t)) }

\* _addEntry: a nil entry for a key that has none
_addEntry(c, qname, t) ==
    IF Has(c.entries, qname) THEN {c}
    ELSE { [c EXCEPT !.entries = Put(ents, qname, NilEntry)] : ents \in _evict(c, t) }

addNXAlways(c, qname, t) ==
    { [c EXCEPT !.entries = Put(ents, qname, NilEntry)]
      : ents \in (IF Has(c.entries, qname) THEN {c.entries} ELSE _evict(c, t)) }

\* add, addNX: the same under the write lock
add(c, qname, rr, t) == _add(c, qname, rr, t)
addNX(c, qname, t) == _addEntry(c, qname, t)

deleteNX(c, qname) ==
    IF Has(c.entries, qname) /\ c.entries[qname].nil
    THEN [c EXCEPT !.entries = Del(c.entries, qname)]
    ELSE c

\* get: nil for a missing key, emptyRRs for an entry without records, else
\* the records (in expiry mode, those that have not expired)
get(c, qname, t) ==
    IF ~Has(c.entries, qname) THEN NilRRs
    ELSE LET e == c.entries[qname]
         IN  IF Cardinality(e.rrs) = 0 THEN emptyRRs
             ELSE IF c.expire
                  THEN MkRRs(SetToSeq({rr \in e.rrs : rr.Expiry = 0 \/ rr.Expiry > t}))
                  ELSE MkRRs(SetToSeq(e.rrs))

\* ------------------------------------------------------------------ wire

\* A record as the DNS library hands it over: the owner name in the case the
\* server sent it
DRR(name, type, value) == [name |-> name, type |-> type, value |-> value]

NameTypes == {"NS", "CNAME", "SOA"}

\* convertRR: the owner name lower-cased, and the value of the record types
\* that name a host; the other types keep their value.  Every record of the
\* model has the four fields the default branch needs, so ok is TRUE.
convertRR(drr, expire) ==
    [ok |-> TRUE,
     rr |-> RR(toLowerFQDN(drr.name), drr.type,
               IF drr.type \in NameTypes THEN toLowerFQDN(drr.value) ELSE drr.value,
               0)]

Msg(rcode, answer, ns, extra) ==
    [Rcode |-> rcode, Answer |-> answer, Ns |-> ns, Extra |-> extra]

\* ------------------------------------------------------------------ root hints

RootServers == {<<"a", "net">>}

IPOf(host) == <<"ip">> \o host

\* The records of the embedded root zone: the root's NS records and the
\* addresses of the root servers
RootHints ==
    SetToSeq({DRR(Root, "NS", h) : h \in RootServers}
             \cup {DRR(h, "A", IPOf(h)) : h \in RootServers})

RECURSIVE AddAll(_, _)
AddAll(c, drrs) ==
    IF drrs = <<>> THEN c
    ELSE LET r == convertRR(Head(drrs), FALSE)
         IN  AddAll(IF r.ok THEN CHOOSE c2 \in add(c, r.rr.Name, r.rr, 0) : TRUE ELSE c,
                    Tail(drrs))

\* init: the process-wide root cache
rootCache == AddAll(newCache(Len(RootHints), FALSE), RootHints)

\* ------------------------------------------------------------------ resolver

\* Durations are in ticks of the clock: an exchange is not started when fewer
\* than TypicalResponseTime ticks remain before the deadline
TypicalResponseTime == 2
MaxRecursion == 10
MaxNameservers == 2
MaxIPs == 2

NoErr == ""
NXDOMAIN == "NXDOMAIN"
ErrMaxRecursion == "ErrMaxRecursion"
ErrMaxIPs == "ErrMaxIPs"
ErrNoARecords == "ErrNoARecords"
ErrNoResponse == "ErrNoResponse"
ErrTimeout == "ErrTimeout"
Canceled == "Canceled"
DeadlineExceeded == "DeadlineExceeded"
ErrNet == "ErrNet"              \* an error of the dialer or of the transport
RcodeSuccess == "NOERROR"
RcodeNameError == "NXDOMAIN"
RcodeServerFailure == "SERVFAIL"

cacheGetFirst(c, cerr, qname, qtype, t) ==
    LET own == get(c, qname, t)
        any == IF own.nil THEN get(rootCache, qname, t) ELSE own
    IN  IF any.nil THEN [rrs |-> NilRRs, err |-> cerr]
        ELSE IF Len(any.s) = 0 THEN [rrs |-> NilRRs, err |-> NXDOMAIN]
        ELSE LET rrs == IF qtype = "" THEN any.s ELSE SelectSeqRR(any.s, qtype)
             IN  IF Len(rrs) = 0 THEN [rrs |-> NilRRs, err |-> cerr]
                 ELSE [rrs |-> MkRRs(rrs), err |-> NoErr]

cacheGetOwn(c, cerr, qname, qtype, t) ==
    IF cerr # NoErr THEN [rrs |-> NilRRs, err |-> cerr]
    ELSE LET any == get(c, qname, t)
         IN  IF any.nil THEN [rrs |-> NilRRs, err |-> NoErr]
             ELSE IF Len(any.s) = 0 THEN [rrs |-> NilRRs, err |-> NXDOMAIN]
             ELSE LET rrs == IF qtype = "" THEN any.s ELSE SelectSeqRR(any.s, qtype)
                  IN  IF Len(rrs) = 0 /\ (qtype # "" /\ qtype # "NS")
                      THEN [rrs |-> NilRRs, err |-> NoErr]
                      ELSE [rrs |-> MkRRs(rrs), err |-> NoErr]

\* cacheGet under a context whose error is cerr ("" while it is live)
cacheGet(c, cerr, qname, qtype, t) ==
    IF cerr # NoErr THEN [rrs |-> NilRRs, err |-> cerr]
    ELSE LET own == get(c, qname, t)
             any == IF own.nil THEN get(rootCache, qname, t) ELSE own
         IN  IF any.nil THEN [rrs |-> NilRRs, err |-> NoErr]
             ELSE IF Len(any.s) = 0 THEN [rrs |-> NilRRs, err |-> NXDOMAIN]
             ELSE LET rrs == IF qtype = "" THEN any.s ELSE SelectSeqRR(any.s, qtype)
                  IN  IF Len(rrs) = 0 /\ (qtype # "" /\ qtype # "NS")
                      THEN [rrs |-> NilRRs, err |-> NoErr]
                      ELSE [rrs |-> MkRRs(rrs), err |-> NoErr]

\* The bailiwick test of saveDNSRR: TRUE when the record is dropped
Poisoning(qname, rr) ==
    CountLabel(rr.Name) < CountLabel(qname) /\ CompareDomainName(qname, rr.Name) < 2

RECURSIVE saveDNSRRForeign(_, _, _, _, _)
saveDNSRRForeign(c, qname, drrs, rrs, t) ==
    IF drrs = <<>> THEN {[cache |-> c, rrs |-> rrs]}
    ELSE LET r == convertRR(Head(drrs), c.expire)
         IN  IF ~r.ok \/ Poisoning(qname, r.rr)
             THEN saveDNSRRForeign(c, qname, Tail(drrs), rrs, t)
             ELSE IF r.rr.Name = qname
             THEN saveDNSRRForeign(c, qname, Tail(drrs), AppendRRs(rrs, <<r.rr>>), t)
             ELSE UNION { saveDNSRRForeign(c2, qname, Tail(drrs), rrs, t)
                          : c2 \in add(c, r.rr.Name, r.rr, t) }

\* saveDNSRR: every record that converts and passes the test is added to the
\* cache under its owner name; the records owned by qname are returned.
\* The result is the set of [cache, rrs] the evictions may leave.
RECURSIVE saveDNSRR(_, _, _, _, _)
saveDNSRR(c, qname, drrs, rrs, t) ==
    IF drrs = <<>> THEN {[cache |-> c, rrs |-> rrs]}
    ELSE LET r == convertRR(Head(drrs), c.expire)
         IN  IF ~r.ok \/ Poisoning(qname, r.rr)
             THEN saveDNSRR(c, qname, Tail(drrs), rrs, t)
             ELSE UNION { saveDNSRR(c2, qname, Tail(drrs),
                                    IF r.rr.Name # qname THEN rrs
                                    ELSE AppendRRs(rrs, <<r.rr>>), t)
                          : c2 \in add(c, r.rr.Name, r.rr, t) }

ResolveNil(rrs, err) == IF err # NoErr THEN NilRRs ELSE rrs

\* Resolve: the wrapper around ResolveErr
Resolve(rrs, err) ==
    IF err = NXDOMAIN THEN emptyRRs
    ELSE IF err # NoErr THEN NilRRs
    ELSE rrs

\* ------------------------------------------------------------------ network

\* The servers answer a query for (qname, qtype) with any of these messages.
\* Owner names come back in upper case, as a server may send them.
UpperOf(l) ==
    CASE l = "com" -> "COM"
      [] l = "x"   -> "X"
      [] OTHER     -> l
Wire(name) == IF name = <<>> THEN name ELSE <<UpperOf(Head(name))>> \o Tail(name)

NSHost(zone) == <<"ns">> \o zone
CNAMETarget == <<"y", "com">>
AnswerType(qtype) == IF qtype = "" THEN "A" ELSE qtype

ServFail == Msg(RcodeServerFailure, <<>>, <<>>, <<>>)
NameError == Msg(RcodeNameError, <<>>, <<>>, <<>>)
NameErrorSOA(qname) ==
    Msg(RcodeNameError, <<>>, <<DRR(parent(qname).name, "SOA", NSHost(parent(qname).name))>>, <<>>)
Referral(qname) ==
    Msg(RcodeSuccess, <<>>, <<DRR(Wire(qname), "NS", NSHost(qname))>>,
        <<DRR(NSHost(qname), "A", IPOf(NSHost(qname)))>>)
\* A referral without the address of the name server, a host in another zone
OtherHost == <<"ns">>
Glueless(qname) ==
    Msg(RcodeSuccess, <<>>, <<DRR(Wire(qname), "NS", OtherHost)>>, <<>>)
Answer(qname, qtype) ==
    Msg(RcodeSuccess, <<DRR(Wire(qname), AnswerType(qtype), IPOf(qname))>>, <<>>, <<>>)
CNAMEAnswer(qname) ==
    Msg(RcodeSuccess, <<DRR(Wire(qname), "CNAME", CNAMETarget),
                        DRR(CNAMETarget, "A", IPOf(CNAMETarget))>>, <<>>, <<>>)

\* The host of a name server has an address and no name servers of its own
IsNSHost(qname) == qname # <<>> /\ Head(qname) = "ns"

Responses(qname, qtype) ==
    IF IsNSHost(qname) THEN (IF qtype = "NS" THEN {ServFail} ELSE {Answer(qname, qtype)})
    ELSE {ServFail, NameError, Referral(qname)}
         \cup (IF qtype = "NS" THEN {NameErrorSOA(qname)}
               ELSE {Answer(qname, qtype), CNAMEAnswer(qname)})
         \cup (IF qtype = "NS" /\ CountLabel(qname) = 1 THEN {Glueless(qname)} ELSE {})

\* No message
NoMsg == Msg("", <<>>, <<>>, <<>>)

\* ------------------------------------------------------------------ tasks

Top(st) == st[Len(st)]
Pop(st) == SubSeq(st, 1, Len(st) - 1)

NoRet == [set |-> FALSE, rrs |-> NilRRs, err |-> NoErr, via |-> ""]

\* What a step makes of the frame on top of the stack: the function returns
\* (rrs, err), or the frame is replaced by frames (the frame as it goes on,
\* and the frame of a call it makes)
Ret(rrs, err, via) == [ret |-> TRUE, rrs |-> rrs, err |-> err, via |-> via, frames |-> <<>>]
Go(frames) == [ret |-> FALSE, rrs |-> NilRRs, err |-> NoErr, via |-> "", frames |-> frames]

ResolveFrame(qname, qtype, depth) ==
    [fn |-> "resolve", pc |-> "start", qname |-> qname, qtype |-> qtype, depth |-> depth]

IterFrame(qname, qtype, depth, chan) ==
    [fn |-> "iterate", pc |-> "head", qname |-> qname, qtype |-> qtype, depth |-> depth,
     pname |-> qname, nrrs |-> NilRRs, count |-> 0, err |-> NoErr, chan |-> chan]

ExchangeFrame(host, qname, qtype, depth) ==
    [fn |-> "exchange", pc |-> "arrs", host |-> host, qname |-> qname, qtype |-> qtype,
     depth |-> depth, arrs |-> <<>>, count |-> 0]

ExchangeIPFrame(host, ip, qname, qtype, depth) ==
    [fn |-> "exchangeIP", pc |-> "start", host |-> host, ip |-> ip, qname |-> qname,
     qtype |-> qtype, depth |-> depth, rmsg |-> NoMsg, nx |-> FALSE,
     rrs |-> NilRRs, grrs |-> <<>>, i |-> 1]

CNAMEsFrameLive(qname, qtype, depth, crrs, cerr) ==
    [fn |-> "cnames", pc |-> "loop", qname |-> qname, qtype |-> qtype, depth |-> depth,
     crrs |-> crrs, i |-> 1, rrs |-> NilRRs, cerr |-> NoErr]

CNAMEsFrame(qname, qtype, depth, crrs, cerr) ==
    [fn |-> "cnames", pc |-> "loop", qname |-> qname, qtype |-> qtype, depth |-> depth,
     crrs |-> crrs, i |-> 1, rrs |-> NilRRs, cerr |-> cerr]

\* A task: the call stack, the error of its context ("" while it is live),
\* the deadline of its context, the channels its result goes to, the call it
\* works for, and what the function that returned last returned
Task(stack, err, dl, chan, call) ==
    [stack |-> stack, err |-> err, dl |-> dl, chan |-> chan, call |-> call, ret |-> NoRet]

\* ctx.Err() for the frame on top of the stack of task tk: the context of the
\* task, or the context that iterateParents cancelled before resolveCNAMEs
CtxErr(tk) ==
    LET cn == {i \in 1..Len(tk.stack) : tk.stack[i].fn = "cnames"}
    IN  IF cn = {} THEN tk.err
        ELSE tk.stack[CHOOSE i \in cn : \A j \in cn : i <= j].cerr

\* The tasks that run an iterateParents with channels c
WalkOwners(T, c) ==
    {p \in DOMAIN T : \E i \in 1..Len(T[p].stack) :
        T[p].stack[i].fn = "iterate" /\ T[p].stack[i].chan = c}

\* The context of a goroutine is a child of the context of the iterateParents
\* that started it: done when that one is done, and cancelled when that
\* iterateParents has called cancel (before resolveCNAMEs, or on return)
ChildErr(T, u) ==
    IF u = 0 \/ T[u].err # NoErr THEN T[u].err
    ELSE LET ps == WalkOwners(T, T[u].chan)
         IN  IF ps = {} THEN Canceled ELSE T[CHOOSE p \in ps : TRUE].err

RECURSIVE Propagate(_)
Propagate(T) ==
    LET T1 == [u \in DOMAIN T |-> [T[u] EXCEPT !.err = ChildErr(T, u)]]
    IN  IF T1 = T THEN T ELSE Propagate(T1)

\* A goroutine whose iterateParents has returned has a cancelled context and
\* nobody receives what it sends: from then on it is observed only if it is
\* past the context check of exchangeIP and about to write to the cache.
\* The others are dropped from the model at once.
Unobserved(T, u) ==
    /\ u # 0
    /\ WalkOwners(T, T[u].chan) = {}
    /\ ~(T[u].stack # <<>> /\ T[u].stack[Len(T[u].stack)].fn = "exchangeIP"
                           /\ T[u].stack[Len(T[u].stack)].pc = "save")

\* Nothing but its write is left to observe of a goroutine that is about to
\* write to the cache after its iterateParents has returned
LateWriter(tk) ==
    LET f == tk.stack[Len(tk.stack)]
    IN  Task(<<[ExchangeIPFrame(Root, Root, f.qname, "", 0)
                  EXCEPT !.pc = "save", !.rmsg = f.rmsg, !.nx = f.nx]>>,
             Canceled, 0, 0, tk.call)

RECURSIVE Settle(_)
Settle(T) ==
    LET T1 == Propagate(T)
        T2 == [u \in {x \in DOMAIN T1 : ~Unobserved(T1, x)} |->
                  IF u # 0 /\ WalkOwners(T1, T1[u].chan) = {} THEN LateWriter(T1[u])
                  ELSE T1[u]]
    IN  IF T2 = T THEN T ELSE Settle(T2)

\* Channels are collected when neither their iterateParents nor a goroutine
\* that sends on them is left; the messages nobody will receive are blanked
LiveChans(C, T) ==
    LET keep == {c \in DOMAIN C : WalkOwners(T, c) # {} \/ \E u \in DOMAIN T : T[u].chan = c}
    IN  [c \in keep |->
            IF WalkOwners(T, c) # {} THEN C[c]
            ELSE [rrs |-> [i \in 1..Len(C[c].rrs) |-> NilRRs],
                  errs |-> [i \in 1..Len(C[c].errs) |-> NoErr]]]

FreeId(D) == CHOOSE i \in 1..(Cardinality(D) + 1) : i \notin D /\ \A j \in 1..(i - 1) : j \in D

NoTasks == [u \in {} |-> Task(<<>>, NoErr, 0, 0, 0)]
NoChans == [c \in {} |-> [rrs |-> <<>>, errs |-> <<>>]]

\* No call in progress, after n calls
Idle(n) ==
    [active |-> FALSE, n |-> n, qname |-> Root, qtype |-> "", mode |-> "live",
     cancelled |-> FALSE, warm |-> "", netUsed |-> FALSE, wrote |-> FALSE, hist |-> {}]

NoLast ==
    [n |-> 0, qname |-> Root, qtype |-> "", mode |-> "live", cancelled |-> FALSE,
     warm |-> "", rrs |-> NilRRs, err |-> NoErr, out |-> NilRRs, via |-> "",
     netUsed |-> FALSE, wrote |-> FALSE, hist |-> {}]

rvars == <<timeout, tasks, chans, cur, last>>

\* The resolver at rest, for the specifications of its parts
NoResolver ==
    /\ timeout = 0
    /\ tasks = NoTasks
    /\ chans = NoChans
    /\ cur = Idle(0)
    /\ last = NoLast

\* ------------------------------------------------------------------ SpecCache

MaxCap == 2         \* capacities 1..MaxCap, and 0 for the default
MaxNow == 3         \* the clock runs 1..MaxNow

CKeys == {<<"com">>, <<"x", "com">>, <<"y", "com">>}
CValues == {<<"ip1">>, <<"ip2">>}
CExpiries == {0, 2}
CRRs == {rr \in {RR(<<"x", "com">>, "A", v, x) : v \in CValues, x \in CExpiries} :
             rr.Value = <<"ip1">> \/ rr.Expiry = 0}

NoGet == [key |-> Root, rrs |-> NilRRs]

InitCache ==
    /\ \E cap \in 0..MaxCap, expire \in BOOLEAN : cache = newCache(cap, expire)
    /\ now = 1
    /\ got = NoGet
    /\ NoResolver

CacheAdd ==
    \E k \in CKeys, rr \in CRRs :
        /\ cache' \in add(cache, k, rr, now)
        /\ UNCHANGED <<now, got>>
        /\ UNCHANGED rvars

CacheAddNX ==
    \E k \in CKeys :
        /\ cache' \in addNX(cache, k, now)
        /\ UNCHANGED <<now, got>>
        /\ UNCHANGED rvars

CacheDeleteNX ==
    \E k \in CKeys :
        /\ cache' = deleteNX(cache, k)
        /\ UNCHANGED <<now, got>>
        /\ UNCHANGED rvars

CacheGet ==
    \E k \in CKeys :
        /\ got' = [key |-> k, rrs |-> get(cache, k, now)]
        /\ UNCHANGED <<cache, now>>
        /\ UNCHANGED rvars

CacheTick ==
    /\ now < MaxNow
    /\ now' = now + 1
    /\ UNCHANGED <<cache, got>>
    /\ UNCHANGED rvars

NextCache == CacheAdd \/ CacheAddNX \/ CacheDeleteNX \/ CacheGet \/ CacheTick

cvars == <<cache, now, got>>

SpecCache == InitCache /\ [][NextCache]_cvars

\* ------------------------------------------------------------------ SpecLock

\* The operations of the cache step by step, as concurrent goroutines run
\* them: thread 1 adds a record to LockKey, thread 2 adds another or calls
\* addNX, thread 3 calls get.

LockKey == <<"x", "com">>

CanLockAlways(m) == TRUE

\* m.Lock() returns when no writer and no reader holds the mutex
CanLock(m) == ~m.w /\ m.r = 0
\* m.RLock() returns when no writer holds the mutex
CanRLock(m) == ~m.w

getCopyAll(c, qname, t) == MkRRs(SetToSeq(c.entries[qname].rrs))

\* get, once the entry was found with records: the copy of the records, in
\* expiry mode of those that have not expired at t
getCopy(c, qname, t) ==
    IF c.expire
    THEN MkRRs(SetToSeq({rr \in c.entries[qname].rrs : rr.Expiry = 0 \/ rr.Expiry > t}))
    ELSE MkRRs(SetToSeq(c.entries[qname].rrs))

Thread(op, rr) ==
    [op |-> op, pc |-> "lock", rr |-> rr, ok |-> FALSE, nil |-> TRUE, t |-> 0,
     res |-> NilRRs]

NoRR == RR(Root, "", Root, 0)

InitLock ==
    /\ \E expire \in BOOLEAN, pre \in {{}} \cup {{rr} : rr \in CRRs}, nx \in BOOLEAN :
          cache = [newCache(1, expire) EXCEPT !.entries =
                      IF pre # {} THEN Put(<< >>, LockKey, MapEntry(pre))
                      ELSE IF nx THEN Put(<< >>, LockKey, NilEntry)
                      ELSE << >>]
    /\ now = 1
    /\ got = NoGet
    /\ \E r1 \in CRRs, r2 \in CRRs, op2 \in {"add", "addNX"} :
          /\ r1 # r2
          /\ tasks = [i \in 1..3 |->
                        CASE i = 1 -> Thread("add", r1)
                          [] i = 2 -> Thread(op2, IF op2 = "add" THEN r2 ELSE NoRR)
                          [] i = 3 -> Thread("get", NoRR)]
    /\ timeout = 0
    /\ chans = NoChans
    /\ cur = Idle(0)
    /\ last = NoLast

lvars == <<timeout, chans, cur, last, got>>
lkvars == <<cache, now, got, timeout, tasks, chans, cur, last>>

\* c.m.Lock() of add and addNX
LockW ==
    \E i \in DOMAIN tasks :
        /\ tasks[i].op \in {"add", "addNX"} /\ tasks[i].pc = "lock"
        /\ CanLock(cache.m)
        /\ cache' = [cache EXCEPT !.m.w = TRUE]
        /\ tasks' = [tasks EXCEPT ![i].pc = "read"]
        /\ UNCHANGED now /\ UNCHANGED lvars

\* c.m.RLock() of get
LockR ==
    \E i \in DOMAIN tasks :
        /\ tasks[i].op = "get" /\ tasks[i].pc = "lock"
        /\ CanRLock(cache.m)
        /\ cache' = [cache EXCEPT !.m.r = @ + 1]
        /\ tasks' = [tasks EXCEPT ![i].pc = "read"]
        /\ UNCHANGED now /\ UNCHANGED lvars

\* e, ok := c.entries[qname]
ReadEntry ==
    \E i \in DOMAIN tasks :
        /\ tasks[i].pc = "read"
        /\ LET ok  == Has(cache.entries, LockKey)
               nil == IF ok THEN cache.entries[LockKey].nil ELSE TRUE
               len == IF ok THEN Cardinality(cache.entries[LockKey].rrs) ELSE 0
           IN  tasks' = [tasks EXCEPT
                  ![i].ok = ok, ![i].nil = nil,
                  ![i].res = IF tasks[i].op = "get" /\ ok /\ len = 0 THEN emptyRRs ELSE NilRRs,
                  ![i].pc = CASE tasks[i].op = "get" -> IF ok /\ len > 0 THEN "copy" ELSE "unlock"
                              [] tasks[i].op = "add" -> IF ~ok THEN "evict"
                                                        ELSE IF nil THEN "make" ELSE "insert"
                              [] OTHER -> IF ~ok THEN "evict" ELSE "unlock"]
        /\ UNCHANGED <<cache, now>> /\ UNCHANGED lvars

\* c._evict() of _add and _addEntry, for a key that was not found
EvictStep ==
    \E i \in DOMAIN tasks :
        /\ tasks[i].pc = "evict"
        /\ \E ents \in _evict(cache, now) : cache' = [cache EXCEPT !.entries = ents]
        /\ tasks' = [tasks EXCEPT ![i].pc = IF tasks[i].op = "add" THEN "make" ELSE "store"]
        /\ UNCHANGED now /\ UNCHANGED lvars

\* _add: c.entries[qname] = make(map[RR]struct{})
MakeStep ==
    \E i \in DOMAIN tasks :
        /\ tasks[i].pc = "make"
        /\ cache' = [cache EXCEPT !.entries = Put(@, LockKey, MapEntry({}))]
        /\ tasks' = [tasks EXCEPT ![i].pc = "insert"]
        /\ UNCHANGED now /\ UNCHANGED lvars

\* _add: e[rr] = struct{}{}
InsertStep ==
    \E i \in DOMAIN tasks :
        /\ tasks[i].pc = "insert"
        /\ cache' = [cache EXCEPT !.entries =
                        Put(@, LockKey,
                            MapEntry((IF Has(@, LockKey) THEN @[LockKey].rrs ELSE {})
                                     \cup {tasks[i].rr}))]
        /\ tasks' = [tasks EXCEPT ![i].pc = "unlock"]
        /\ UNCHANGED now /\ UNCHANGED lvars

\* _addEntry: c.entries[qname] = nil
StoreNilStep ==
    \E i \in DOMAIN tasks :
        /\ tasks[i].pc = "store"
        /\ cache' = [cache EXCEPT !.entries = Put(@, LockKey, NilEntry)]
        /\ tasks' = [tasks EXCEPT ![i].pc = "unlock"]
        /\ UNCHANGED now /\ UNCHANGED lvars

\* get: now := time.Now() and the copy of the records
CopyStep ==
    \E i \in DOMAIN tasks :
        /\ tasks[i].pc = "copy"
        /\ tasks' = [tasks EXCEPT
              ![i].t = now,
              ![i].res = IF Has(cache.entries, LockKey)
                         THEN getCopy(cache, LockKey, now) ELSE emptyRRs,
              ![i].pc = "unlock"]
        /\ UNCHANGED <<cache, now>> /\ UNCHANGED lvars

\* The deferred c.m.Unlock() / c.m.RUnlock(), and the return
UnlockStep ==
    \E i \in DOMAIN tasks :
        /\ tasks[i].pc = "unlock"
        /\ cache' = IF tasks[i].op = "get" THEN [cache EXCEPT !.m.r = @ - 1]
                    ELSE [cache EXCEPT !.m.w = FALSE]
        /\ tasks' = [tasks EXCEPT ![i].pc = "done"]
        /\ UNCHANGED now /\ UNCHANGED lvars

LockTick ==
    /\ now < MaxNow
    /\ now' = now + 1
    /\ UNCHANGED <<cache, tasks>> /\ UNCHANGED lvars

NextLock ==
    \/ LockW \/ LockR \/ ReadEntry \/ EvictStep \/ MakeStep \/ InsertStep
    \/ StoreNilStep \/ CopyStep \/ UnlockStep \/ LockTick

SpecLock == InitLock /\ [][NextLock]_lkvars

\* ------------------------------------------------------------------ SpecOps

\* The cache under sequences of add, addNX and get, where got keeps the last
\* operation: its arguments, the cache before it and the result of a get

Op(op, key, rr, before, rrs) ==
    [op |-> op, key |-> key, rr |-> rr, before |-> before, rrs |-> rrs]

InitOps ==
    /\ \E cap \in 1..MaxCap, expire \in BOOLEAN : cache = newCache(cap, expire)
    /\ now = 1
    /\ got = Op("", Root, NoRR, cache, NilRRs)
    /\ NoResolver

OpsAdd ==
    \E k \in CKeys, rr \in CRRs :
        /\ cache' \in add(cache, k, rr, now)
        /\ got' = Op("add", k, rr, cache, NilRRs)
        /\ UNCHANGED now
        /\ UNCHANGED rvars

OpsAddNX ==
    \E k \in CKeys :
        /\ cache' \in addNX(cache, k, now)
        /\ got' = Op("addNX", k, NoRR, cache, NilRRs)
        /\ UNCHANGED now
        /\ UNCHANGED rvars

OpsGet ==
    \E k \in CKeys :
        /\ got' = Op("get", k, NoRR, cache, get(cache, k, now))
        /\ UNCHANGED <<cache, now>>
        /\ UNCHANGED rvars

OpsTick ==
    /\ now < MaxNow
    /\ now' = now + 1
    /\ UNCHANGED <<cache, got>>
    /\ UNCHANGED rvars

NextOps == OpsAdd \/ OpsAddNX \/ OpsGet \/ OpsTick

SpecOps == InitOps /\ [][NextOps]_cvars

\* ------------------------------------------------------------------ SpecSave

\* Query names and owner names of up to four labels
SNames == {Root, <<"uk">>, <<"co", "uk">>, <<"v", "co", "uk">>,
           <<"b", "co", "uk">>, <<"a", "b", "co", "uk">>, <<"com">>}
SWire == {DRR(n, "A", <<"ip1">>) : n \in SNames \cup {<<"COM">>}}
SResponses == {<<d>> : d \in SWire} \cup {<<d1, d2>> : d1 \in SWire, d2 \in {DRR(<<"uk">>, "A", <<"ip1">>)}}

InitSave ==
    /\ cache = newCache(0, FALSE)
    /\ now = 1
    /\ got = NoGet
    /\ NoResolver

\* saveDNSRR on the records of a response to a query for qname
Save ==
    \E qname \in SNames \ {Root}, drrs \in SResponses :
        \E o \in saveDNSRR(cache, qname, drrs, NilRRs, now) :
            /\ cache' = o.cache
            /\ got' = [key |-> qname, rrs |-> o.rrs]
            /\ UNCHANGED now
            /\ UNCHANGED rvars

NextSave == Save

SpecSave == InitSave /\ [][NextSave]_cvars

\* The records of every entry of a cache
Stored(c) == UNION {c.entries[k].rrs : k \in DOMAIN c.entries}

\* a is qname or an ancestor of it
IsAncestor(a, qname) == CompareDomainName(qname, a) = Len(a)

\* C10: no record whose owner has fewer labels than qname and is not an
\* ancestor of qname is stored from a response to a query for qname
Bailiwick ==
    [][\A rr \in Stored(cache') \ Stored(cache) :
          ~(CountLabel(rr.Name) < CountLabel(got'.key) /\ ~IsAncestor(rr.Name, got'.key))]_cvars

\* ------------------------------------------------------------------ Spec

MaxCalls == 2       \* calls of ResolveErr / ResolveContext in a behaviour
MaxTimeout == 2     \* the resolver's timeout is 0 or MaxTimeout ticks

Timeouts == {0, MaxTimeout}
QNames == {<<"com">>, <<"X", "com">>}
QTypes == {"A", "NS"}
\* The context of the caller: live when the call is made (ResolveErr, with
\* the background context that nobody cancels, or ResolveContext), or
\* cancelled already (ResolveContext)
Modes == {"live", "cancelled"}

Init ==
    /\ cache = newCache(0, FALSE)
    /\ now = 0
    /\ got = NoGet
    /\ timeout \in Timeouts
    /\ tasks = NoTasks
    /\ chans = NoChans
    /\ cur = Idle(0)
    /\ last = NoLast

\* Task t of T is in function fn at pc
AtIn(T, t, fn, pc) ==
    /\ t \in DOMAIN T
    /\ T[t].stack # <<>>
    /\ Top(T[t].stack).fn = fn
    /\ Top(T[t].stack).pc = pc

At(t, fn, pc) == AtIn(tasks, t, fn, pc)

Without(T, t) == [u \in (DOMAIN T) \ {t} |-> T[u]]

\* Task t, in tasks T with channels C, makes o of its top frame.  When the
\* last frame of the caller's thread returns, the call returns: the deferred
\* cancel runs and the result is handed to the caller.
Commit(t, o, T, C, cur1) ==
    LET tk  == T[t]
        st  == Pop(tk.stack) \o o.frames
        fin == t = 0 /\ st = <<>>
        tk1 == [tk EXCEPT !.stack = st,
                          !.ret = IF o.ret
                                  THEN [set |-> TRUE, rrs |-> o.rrs, err |-> o.err, via |-> o.via]
                                  ELSE NoRet]
        T1  == IF fin THEN Without(T, 0) ELSE [T EXCEPT ![t] = tk1]
        T2  == Settle(T1)
    IN  /\ tasks' = T2
        /\ chans' = LiveChans(C, T2)
        /\ IF fin
           THEN /\ cur' = Idle(cur1.n)
                /\ last' = [n |-> cur1.n, qname |-> cur1.qname, qtype |-> cur1.qtype,
                            mode |-> cur1.mode, cancelled |-> cur1.cancelled,
                            warm |-> cur1.warm,
                            rrs |-> o.rrs, err |-> o.err,
                            out |-> Resolve(o.rrs, o.err), via |-> o.via,
                            netUsed |-> cur1.netUsed, wrote |-> cur1.wrote,
                            hist |-> cur1.hist]
           ELSE /\ cur' = cur1
                /\ UNCHANGED last

\* What the caller's thread has seen during the call
Seen(t, cond, what) == IF t = 0 /\ cond THEN [cur EXCEPT !.hist = @ \cup {what}] ELSE cur

\* What the cache holds for (qname, qtype) when the call is made
Warm(qname, qtype) ==
    LET cg == cacheGet(cache, NoErr, qname, qtype, 0)
    IN  IF cg.err = NXDOMAIN THEN "negative"
        ELSE IF Len(cg.rrs.s) > 0 THEN "positive" ELSE ""

\* ResolveErr(qname, qtype) or ResolveContext(ctx, qname, qtype): the context
\* with the resolver's timeout, and resolve at depth 0
Call ==
    \E qname \in QNames, qtype \in QTypes, mode \in Modes :
        /\ ~cur.active
        /\ cur.n < MaxCalls
        /\ now' = 0
        /\ tasks' = [u \in (DOMAIN tasks) \cup {0} |->
                        IF u = 0
                        THEN Task(<<ResolveFrame(toLowerFQDN(qname), qtype, 0)>>,
                                  IF mode = "cancelled" THEN Canceled
                                  ELSE IF timeout = 0 THEN DeadlineExceeded ELSE NoErr,
                                  timeout, 0, cur.n + 1)
                        ELSE [tasks[u] EXCEPT !.dl = @ - now]]
        /\ cur' = [Idle(cur.n + 1) EXCEPT !.active = TRUE, !.qname = toLowerFQDN(qname),
                                          !.qtype = qtype, !.mode = mode,
                                          !.cancelled = (mode = "cancelled"),
                                          !.warm = Warm(toLowerFQDN(qname), qtype)]
        /\ last' = NoLast
        /\ UNCHANGED <<cache, got, timeout, chans>>

\* The clock advances; contexts whose deadline has come are done
Tick ==
    /\ cur.active
    /\ now < timeout
    /\ now' = now + 1
    /\ tasks' = Settle([u \in DOMAIN tasks |->
                    IF tasks[u].err = NoErr /\ tasks[u].dl <= now + 1
                    THEN [tasks[u] EXCEPT !.err = DeadlineExceeded]
                    ELSE tasks[u]])
    /\ chans' = LiveChans(chans, tasks')
    /\ UNCHANGED <<cache, got, timeout, cur, last>>

\* The caller cancels the context it passed to ResolveContext
CallerCancel ==
    /\ cur.active
    /\ cur.mode = "live"
    /\ tasks[0].err = NoErr
    /\ tasks' = Settle([tasks EXCEPT ![0].err = Canceled])
    /\ chans' = LiveChans(chans, tasks')
    /\ cur' = [cur EXCEPT !.cancelled = TRUE]
    /\ UNCHANGED <<cache, now, got, timeout, last>>

\* The loop head of iterateParents for f.pname, and the loop's post statement
RECURSIVE IterHead(_), IterAdvance(_)
IterHeadRoot(f) ==
    IF f.pname = f.qname /\ f.qtype = "NS" THEN IterAdvance(f)
    ELSE Go(<<[f EXCEPT !.pc = "ns"], ResolveFrame(f.pname, "NS", f.depth)>>)

IterHead(f) ==
    IF f.pname = f.qname /\ f.qtype = "NS" THEN IterAdvance(f)
    ELSE IF f.pname = Root /\ CountLabel(f.qname) # 1 THEN Ret(NilRRs, NoErr, "root")
    ELSE Go(<<[f EXCEPT !.pc = "ns"], ResolveFrame(f.pname, "NS", f.depth)>>)

IterAdvance(f) ==
    LET p == parent(f.pname)
    IN  IF ~p.ok THEN Ret(NilRRs, ErrNoResponse, "noresponse")
        ELSE IterHead([f EXCEPT !.pname = p.name])

\* After the wait loop of iterateParents
IterAfterWait(f) ==
    IF f.qtype = "NS" THEN Ret(NilRRs, f.err, "nsend") ELSE IterAdvance(f)

\* resolve up to the call of iterateParents, and iterateParents up to its
\* first nested resolve
ResolveStep ==
    \E t \in DOMAIN tasks :
        /\ At(t, "resolve", "start")
        /\ LET tk    == tasks[t]
               f     == Top(tk.stack)
               depth == f.depth + 1
               cg    == cacheGet(cache, CtxErr(tk), f.qname, f.qtype, now)
               c     == FreeId(DOMAIN chans)
               walk  == depth <= MaxRecursion /\ cg.err = NoErr /\ Len(cg.rrs.s) = 0
               o     == IF depth > MaxRecursion THEN Ret(NilRRs, ErrMaxRecursion, "maxrecursion")
                        ELSE IF cg.err # NoErr THEN Ret(NilRRs, cg.err, "cache")
                        ELSE IF Len(cg.rrs.s) > 0 THEN Ret(cg.rrs, NoErr, "cache")
                        ELSE IterHead(IterFrame(f.qname, f.qtype, depth, c))
               C1    == IF walk
                        THEN [x \in (DOMAIN chans) \cup {c} |->
                                 IF x = c THEN [rrs |-> <<>>, errs |-> <<>>] ELSE chans[x]]
                        ELSE chans
           IN  Commit(t, o, tasks, C1, cur)
        /\ UNCHANGED <<cache, now, got, timeout>>

\* The hosts iterateParents queries: the NS records among nrrs, up to
\* MaxNameservers of them
RECURSIVE NSHosts(_, _)
NSHosts(s, count) ==
    IF s = <<>> \/ count >= MaxNameservers THEN <<>>
    ELSE IF Head(s).Type # "NS" THEN NSHosts(Tail(s), count)
    ELSE <<Head(s).Value>> \o NSHosts(Tail(s), count + 1)

\* go func(host) { r.exchange(ctx, host, qname, qtype, depth) ... } for hosts
RECURSIVE Spawn(_, _, _, _)
Spawn(T, hosts, f, tk) ==
    IF hosts = <<>> THEN T
    ELSE LET u == FreeId((DOMAIN T) \ {0})
             g == Task(<<ExchangeFrame(Head(hosts), f.qname, f.qtype, f.depth),
                         ResolveFrame(Head(hosts), "A", f.depth)>>,
                       tk.err, tk.dl, f.chan, tk.call)
         IN  Spawn([x \in (DOMAIN T) \cup {u} |-> IF x = u THEN g ELSE T[x]],
                   Tail(hosts), f, tk)

\* iterateParents from the return of resolve(pname, "NS") to the wait loop
IterNS ==
    \E t \in DOMAIN tasks :
        /\ At(t, "iterate", "ns")
        /\ tasks[t].ret.set
        /\ LET tk    == tasks[t]
               f     == Top(tk.stack)
               r     == tk.ret
               probe == Len(r.rrs.s) > 0 /\ f.qtype # ""
               cg    == cacheGet(cache, CtxErr(tk), f.qname, f.qtype, now)
               hosts == NSHosts(r.rrs.s, 0)
               f1    == [f EXCEPT !.pc = "wait", !.nrrs = r.rrs, !.count = Len(hosts),
                                  !.err = NoErr]
               query == /\ r.err = NoErr
                        /\ ~(probe /\ (cg.err # NoErr \/ Len(cg.rrs.s) > 0))
               o     == IF r.err \in {NXDOMAIN, ErrTimeout, DeadlineExceeded}
                        THEN Ret(NilRRs, r.err, "nsfatal")
                        ELSE IF r.err # NoErr THEN IterAdvance(f)
                        ELSE IF probe /\ cg.err # NoErr THEN Ret(NilRRs, cg.err, "reprobe")
                        ELSE IF probe /\ Len(cg.rrs.s) > 0 THEN Ret(cg.rrs, NoErr, "reprobe")
                        ELSE IF hosts = <<>> THEN IterAfterWait(f1)
                        ELSE Go(<<f1>>)
               T1    == IF query THEN Spawn(tasks, hosts, f, tk) ELSE tasks
           IN  Commit(t, o, T1, chans, Seen(t, r.err = Canceled, "canceled"))
        /\ UNCHANGED <<cache, now, got, timeout>>

\* select: case <-ctx.Done()
IterWaitDone ==
    \E t \in DOMAIN tasks :
        /\ At(t, "iterate", "wait")
        /\ CtxErr(tasks[t]) # NoErr
        /\ Commit(t, Ret(NilRRs, CtxErr(tasks[t]), "done"), tasks, chans, cur)
        /\ UNCHANGED <<cache, now, got, timeout>>

OwnedByNone(s, qname) == <<>>

RECURSIVE OwnedBy(_, _)
OwnedBy(s, qname) ==
    IF s = <<>> THEN <<>>
    ELSE (IF Head(s).Name = qname THEN <<Head(s)>> ELSE <<>>) \o OwnedBy(Tail(s), qname)

\* resolveCNAMEs from the head of its loop to the nested resolve or the end
RECURSIVE CNAMEsLoop(_)
CNAMEsLoop(f) ==
    IF f.i > Len(f.crrs) THEN Ret(f.rrs, NoErr, "answer")
    ELSE LET crr == f.crrs[f.i]
             f1  == [f EXCEPT !.rrs = AppendRRs(f.rrs, <<crr>>)]
         IN  IF crr.Type # "CNAME" \/ crr.Name # f.qname
             THEN CNAMEsLoop([f1 EXCEPT !.i = f.i + 1])
             ELSE Go(<<[f1 EXCEPT !.pc = "wait"], ResolveFrame(crr.Value, f.qtype, f.depth)>>)

\* select: case rrs := <-chanRRs.  cancel() comes before resolveCNAMEs, which
\* gets the context that has just been cancelled.
IterWaitRRs ==
    \E t \in DOMAIN tasks :
        /\ At(t, "iterate", "wait")
        /\ chans[Top(tasks[t].stack).chan].rrs # <<>>
        /\ LET tk   == tasks[t]
               f    == Top(tk.stack)
               ch   == chans[f.chan]
               rrs  == AppendRRs(Head(ch.rrs), OwnedBy(f.nrrs.s, f.qname))
               cerr == IF CtxErr(tk) # NoErr THEN CtxErr(tk) ELSE Canceled
               C1   == [chans EXCEPT ![f.chan].rrs = Tail(@)]
           IN  Commit(t, CNAMEsLoop(CNAMEsFrame(f.qname, f.qtype, f.depth, rrs.s, cerr)),
                      tasks, C1,
                      Seen(t, \E k \in 1..Len(rrs.s) :
                                  rrs.s[k].Type = "CNAME" /\ rrs.s[k].Name = f.qname,
                           "cname"))
        /\ UNCHANGED <<cache, now, got, timeout>>

\* select: case err = <-chanErrs
IterWaitErr ==
    \E t \in DOMAIN tasks :
        /\ At(t, "iterate", "wait")
        /\ chans[Top(tasks[t].stack).chan].errs # <<>>
        /\ LET tk  == tasks[t]
               f   == Top(tk.stack)
               err == Head(chans[f.chan].errs)
               f1  == [f EXCEPT !.count = f.count - 1, !.err = err]
               o   == IF err = NXDOMAIN THEN Ret(NilRRs, err, "nxdomain")
                      ELSE IF f1.count > 0 THEN Go(<<f1>>)
                      ELSE IterAfterWait(f1)
               C1  == [chans EXCEPT ![f.chan].errs = Tail(@)]
               c1  == Seen(t, err = ErrTimeout, "timeout")
           IN  Commit(t, o, tasks, C1,
                      IF t = 0 /\ err = Canceled
                      THEN [c1 EXCEPT !.hist = @ \cup {"canceled"}] ELSE c1)
        /\ UNCHANGED <<cache, now, got, timeout>>

\* resolveCNAMEs after the nested resolve of a CNAME's target: its error is
\* dropped, its records are added to the cache under qname, and the CNAME is
\* appended to the result once for each of them
RECURSIVE AddEach(_, _, _, _)
AddEach(c, qname, s, t) ==
    IF s = <<>> THEN {c}
    ELSE UNION {AddEach(c2, qname, Tail(s), t) : c2 \in add(c, qname, Head(s), t)}

CNAMEsRet ==
    \E t \in DOMAIN tasks :
        /\ At(t, "cnames", "wait")
        /\ tasks[t].ret.set
        /\ LET tk   == tasks[t]
               f    == Top(tk.stack)
               crr  == f.crrs[f.i]
               crrs == tk.ret.rrs.s
               f1   == [f EXCEPT !.pc = "loop", !.i = f.i + 1,
                                 !.rrs = AppendRRs(f.rrs, [k \in 1..Len(crrs) |-> crr])]
           IN  /\ cache' \in AddEach(cache, f.qname, crrs, now)
               /\ Commit(t, CNAMEsLoop(f1), tasks, chans,
                         IF tk.call = cur.n /\ cur.active /\ crrs # <<>>
                         THEN [cur EXCEPT !.wrote = TRUE] ELSE cur)
        /\ UNCHANGED <<now, got, timeout>>

RECURSIVE ExchangeNextAll(_)
ExchangeNextAll(f) ==
    IF f.arrs = <<>> THEN Ret(NilRRs, ErrNoARecords, "")
    ELSE LET arr == Head(f.arrs)
             f1  == [f EXCEPT !.arrs = Tail(f.arrs)]
         IN  IF arr.Type # "A" THEN ExchangeNextAll(f1)
             ELSE Go(<<[f1 EXCEPT !.count = f.count + 1, !.pc = "ip"],
                       ExchangeIPFrame(f.host, arr.Value, f.qname, f.qtype, f.depth)>>)

\* The loop of exchange over arrs: the next A record, if any
RECURSIVE ExchangeNext(_)
ExchangeNext(f) ==
    IF f.arrs = <<>> THEN Ret(NilRRs, ErrNoARecords, "")
    ELSE LET arr == Head(f.arrs)
             f1  == [f EXCEPT !.arrs = Tail(f.arrs)]
         IN  IF arr.Type # "A" THEN ExchangeNext(f1)
             ELSE IF f.count + 1 > MaxIPs THEN Ret(NilRRs, ErrMaxIPs, "")
             ELSE Go(<<[f1 EXCEPT !.count = f.count + 1, !.pc = "ip"],
                       ExchangeIPFrame(f.host, arr.Value, f.qname, f.qtype, f.depth)>>)

\* exchange after resolve(host, "A")
ExchangeArrs ==
    \E t \in DOMAIN tasks :
        /\ At(t, "exchange", "arrs")
        /\ tasks[t].ret.set
        /\ LET tk == tasks[t]
               f  == Top(tk.stack)
               o  == IF tk.ret.err # NoErr THEN Ret(NilRRs, tk.ret.err, "")
                     ELSE ExchangeNext([f EXCEPT !.arrs = tk.ret.rrs.s])
           IN  Commit(t, o, tasks, chans, cur)
        /\ UNCHANGED <<cache, now, got, timeout>>

ExchangeAfterIPErr(f, r, cerr) ==
    IF r.err # NoErr THEN Ret(NilRRs, r.err, "") ELSE Ret(r.rrs, NoErr, "")

\* exchange after exchangeIP returned r, under a context whose error is cerr
ExchangeAfterIP(f, r, cerr) ==
    IF r.err \in {NoErr, NXDOMAIN, ErrTimeout} THEN Ret(r.rrs, r.err, "")
    ELSE IF cerr # NoErr THEN Ret(NilRRs, cerr, "")
    ELSE ExchangeNext(f)

ExchangeIPRet ==
    \E t \in DOMAIN tasks :
        /\ At(t, "exchange", "ip")
        /\ tasks[t].ret.set
        /\ LET tk == tasks[t]
               f  == Top(tk.stack)
           IN  Commit(t, ExchangeAfterIP(f, tk.ret, CtxErr(tk)), tasks, chans, cur)
        /\ UNCHANGED <<cache, now, got, timeout>>

\* exchangeIP up to the query: the deadline check, and the dial.  With a
\* context that is done the dial fails at once and no query is sent.
ExchangeIPStart ==
    \E t \in DOMAIN tasks, dialed \in BOOLEAN :
        /\ At(t, "exchangeIP", "start")
        /\ LET tk   == tasks[t]
               f    == Top(tk.stack)
               late == now > tk.dl - TypicalResponseTime
               sent == ~late /\ CtxErr(tk) = NoErr /\ dialed
               o    == IF late THEN Ret(NilRRs, ErrTimeout, "")
                       ELSE IF CtxErr(tk) # NoErr THEN Ret(NilRRs, CtxErr(tk), "")
                       ELSE IF ~dialed THEN Ret(NilRRs, ErrNet, "")
                       ELSE Go(<<[f EXCEPT !.pc = "recv"]>>)
           IN  Commit(t, o, tasks, chans,
                      IF sent /\ tk.call = cur.n /\ cur.active
                      THEN [cur EXCEPT !.netUsed = TRUE] ELSE cur)
        /\ UNCHANGED <<cache, now, got, timeout>>

hasSOAAny(qtype, rmsg, expire) ==
    \E k \in 1..Len(rmsg.Ns) :
        convertRR(rmsg.Ns[k], expire).ok /\ convertRR(rmsg.Ns[k], expire).rr.Type = "SOA"

\* The NameError branch of exchangeIP: an NS query whose reply has a SOA
\* record in its authority section is not taken for NXDOMAIN
hasSOA(qtype, rmsg, expire) ==
    /\ qtype = "NS"
    /\ \E k \in 1..Len(rmsg.Ns) :
          convertRR(rmsg.Ns[k], expire).ok /\ convertRR(rmsg.Ns[k], expire).rr.Type = "SOA"

\* exchangeIP from the end of the exchange to the write to the cache: the
\* check of the context, of the error and of the RCODE
ExchangeIPRecv ==
    \E t \in DOMAIN tasks :
        /\ At(t, "exchangeIP", "recv")
        /\ \E rmsg \in Responses(Top(tasks[t].stack).qname, Top(tasks[t].stack).qtype) :
            LET tk == tasks[t]
                f  == Top(tk.stack)
                nx == rmsg.Rcode = RcodeNameError /\ ~hasSOA(f.qtype, rmsg, cache.expire)
                o  == IF CtxErr(tk) # NoErr THEN Ret(NilRRs, CtxErr(tk), "")
                      ELSE IF nx THEN Go(<<[f EXCEPT !.pc = "save", !.nx = TRUE]>>)
                      ELSE IF rmsg.Rcode \notin {RcodeNameError, RcodeSuccess}
                      THEN Ret(NilRRs, rmsg.Rcode, "")
                      ELSE Go(<<[f EXCEPT !.pc = "save", !.rmsg = rmsg]>>)
            IN  Commit(t, o, tasks, chans, cur)
        /\ UNCHANGED <<cache, now, got, timeout>>

\* The glue loop of exchangeIP: from record i of the saved records to the
\* next NS record, or to the end
RECURSIVE GlueSkip(_)
GlueSkip(f) ==
    IF f.i > Len(f.grrs) THEN Ret(f.rrs, NoErr, "")
    ELSE IF f.grrs[f.i].Type # "NS" THEN GlueSkip([f EXCEPT !.i = f.i + 1])
    ELSE Go(<<[f EXCEPT !.pc = "glue"]>>)

\* exchangeIP writes to the cache: addNX, or saveDNSRR on the three sections
ExchangeIPSave ==
    \E t \in DOMAIN tasks :
        /\ At(t, "exchangeIP", "save")
        /\ LET tk == tasks[t]
               f  == Top(tk.stack)
               c1 == IF tk.call = cur.n /\ cur.active THEN [cur EXCEPT !.wrote = TRUE] ELSE cur
               f0 == [f EXCEPT !.rmsg = NoMsg, !.nx = FALSE]
           IN  IF f.nx
               THEN /\ cache' \in addNX(cache, f.qname, now)
                    /\ Commit(t, Ret(NilRRs, NXDOMAIN, ""), tasks, chans, c1)
               ELSE \E s \in saveDNSRR(cache, f.qname,
                                       f.rmsg.Answer \o f.rmsg.Ns \o f.rmsg.Extra, NilRRs, now) :
                        /\ cache' = s.cache
                        /\ Commit(t, IF f.qtype = "NS"
                                     THEN GlueSkip([f0 EXCEPT !.rrs = s.rrs, !.grrs = s.rrs.s, !.i = 1])
                                     ELSE Ret(s.rrs, NoErr, ""),
                                  tasks, chans, c1)
        /\ UNCHANGED <<now, got, timeout>>

\* The glue loop of exchangeIP at an NS record: the address of its host from
\* the cache, or from the server that is being queried
ExchangeIPGlue ==
    \E t \in DOMAIN tasks :
        /\ At(t, "exchangeIP", "glue")
        /\ LET tk == tasks[t]
               f  == Top(tk.stack)
               rr == f.grrs[f.i]
               cg == cacheGet(cache, CtxErr(tk), rr.Value, "A", now)
               o  == IF cg.err = NXDOMAIN THEN GlueSkip([f EXCEPT !.i = f.i + 1])
                     ELSE IF cg.err # NoErr THEN Ret(f.rrs, NoErr, "")
                     ELSE IF Len(cg.rrs.s) = 0
                     THEN Go(<<[f EXCEPT !.pc = "gluewait"],
                               ExchangeIPFrame(f.host, f.ip, rr.Value, "A", f.depth + 1)>>)
                     ELSE GlueSkip([f EXCEPT !.rrs = AppendRRs(f.rrs, cg.rrs.s), !.i = f.i + 1])
           IN  Commit(t, o, tasks, chans, cur)
        /\ UNCHANGED <<cache, now, got, timeout>>

\* The glue loop after the nested exchangeIP
ExchangeIPGlueRet ==
    \E t \in DOMAIN tasks :
        /\ At(t, "exchangeIP", "gluewait")
        /\ tasks[t].ret.set
        /\ LET tk == tasks[t]
               f  == [Top(tk.stack) EXCEPT !.pc = "glue"]
               o  == IF tk.ret.err # NoErr THEN Ret(f.rrs, NoErr, "")
                     ELSE GlueSkip([f EXCEPT !.rrs = AppendRRs(f.rrs, tk.ret.rrs.s),
                                             !.i = f.i + 1])
           IN  Commit(t, o, tasks, chans, cur)
        /\ UNCHANGED <<cache, now, got, timeout>>

\* The goroutine sends what exchange returned: chanErrs <- err or
\* chanRRs <- rrs.  A send blocks while the channel holds MaxNameservers.
Send ==
    \E t \in (DOMAIN tasks) \ {0} :
        /\ tasks[t].stack = <<>>
        /\ tasks[t].ret.set
        /\ LET tk == tasks[t]
               ch == chans[tk.chan]
               C1 == IF tk.ret.err # NoErr
                     THEN [chans EXCEPT ![tk.chan].errs = Append(@, tk.ret.err)]
                     ELSE [chans EXCEPT ![tk.chan].rrs = Append(@, tk.ret.rrs)]
               T1 == Without(tasks, t)
           IN  /\ IF tk.ret.err # NoErr THEN Len(ch.errs) < MaxNameservers
                                        ELSE Len(ch.rrs) < MaxNameservers
               /\ tasks' = T1
               /\ chans' = LiveChans(C1, T1)
        /\ UNCHANGED <<cache, now, got, timeout, cur, last>>

Next ==
    \/ Call
    \/ Tick
    \/ CallerCancel
    \/ ResolveStep
    \/ IterNS
    \/ IterWaitDone
    \/ IterWaitRRs
    \/ IterWaitErr
    \/ CNAMEsRet
    \/ ExchangeArrs
    \/ ExchangeIPRet
    \/ ExchangeIPStart
    \/ ExchangeIPRecv
    \/ ExchangeIPSave
    \/ ExchangeIPGlue
    \/ ExchangeIPGlueRet
    \/ Send

vars == <<cache, now, got, timeout, tasks, chans, cur, last>>

Spec == Init /\ [][Next]_vars

\* ------------------------------------------------------------------ SpecQuery

\* exchangeIP on its own, under a context that nobody cancels and that may
\* have a deadline: the question it builds, the
\* exchange over UDP, the retry over TCP of a truncated reply, and the
\* queries of its glue loop.  got is the set of the queries that were sent.

\* The type of the question: A when the type is not known
DType(qtype) == IF qtype \in {"A", "NS", "CNAME", "SOA"} THEN qtype ELSE "A"

QueryRD(qname, qtype) ==
    [Name |-> qname, Qtype |-> DType(qtype), RecursionDesired |-> TRUE]

\* qmsg, once exchangeIP has set the question and the header
Query(qname, qtype) ==
    [Name |-> qname, Qtype |-> DType(qtype), RecursionDesired |-> FALSE]

NoQuery == [Name |-> Root, Qtype |-> "", RecursionDesired |-> TRUE]

\* exchangeIP(ctx, host, ip, qname, qtype, depth): host is the server asked
QueryFrame(host, qname, qtype, depth) ==
    [pc |-> "start", host |-> host, qname |-> qname, qtype |-> qtype, depth |-> depth,
     qmsg |-> NoQuery, start |-> 0, rmsg |-> NoMsg, err |-> NoErr, grrs |-> <<>>, i |-> 1]

\* A query on the wire, and the server it goes to
Sent(net, f) == [net |-> net, host |-> f.host, qmsg |-> f.qmsg, depth |-> f.depth]

\* A reply to an NS query with the name servers of the zone and without
\* their addresses
ReferralNoGlue(qname) ==
    Msg(RcodeSuccess, <<>>, <<DRR(Wire(qname), "NS", NSHost(qname))>>, <<>>)

\* The servers may also answer NameError with a SOA record to a query of any
\* type
QueryResponses(qname, qtype) ==
    Responses(qname, qtype)
        \cup (IF IsNSHost(qname) THEN {} ELSE {NameErrorSOA(qname)})
        \cup (IF qtype = "NS" /\ ~IsNSHost(qname) THEN {ReferralNoGlue(qname)} ELSE {})

\* The servers iterateParents has exchange ask for qname: the name servers
\* of qname and of its parents, those of the root only for a name of one
\* label
QueryServers(qname) ==
    {host \in RootServers \cup {NSHost(<<"com">>)} :
        host \in RootServers => CountLabel(qname) = 1}

\* The cache when exchangeIP starts: empty, or with a record of the name
\* that an earlier exchange left
QueryCaches(qname) ==
    {newCache(0, FALSE)} \cup add(newCache(0, FALSE), qname, RR(qname, "NS", NSHost(qname), 0), 0)

InitQuery ==
    /\ cache \in UNION {QueryCaches(qname) : qname \in {<<"com">>, <<"x", "com">>}}
    /\ now = 0
    /\ got = {}
    /\ timeout \in Timeouts
    /\ \E qname \in {<<"com">>, <<"x", "com">>}, qtype \in {"", "A", "NS"},
          tcpRetry \in BOOLEAN, deadline \in BOOLEAN :
          \E host \in QueryServers(qname) :
             tasks = [stack |-> <<QueryFrame(host, qname, qtype, 0)>>, tcpRetry |-> tcpRetry,
                      deadline |-> deadline, err |-> NoErr]
    /\ chans = NoChans
    /\ cur = Idle(0)
    /\ last = NoLast

QAt(pc) == tasks.stack # <<>> /\ Top(tasks.stack).pc = pc

\* The frame on top goes on as f
QGo(f) == [tasks EXCEPT !.stack = Pop(@) \o <<f>>]

\* exchangeIP returns err to its caller
QRet(err) == [tasks EXCEPT !.stack = Pop(@), !.err = err]

QLatePast(start) == tasks.deadline /\ start > timeout

\* start is too close to the deadline of the context
QLate(start) == tasks.deadline /\ start > timeout - TypicalResponseTime

\* The context is done: its deadline has come
QDone == tasks.deadline /\ now >= timeout

\* A dial under a context that is done fails
Dials == IF QDone THEN {FALSE} ELSE BOOLEAN

\* exchangeIP builds qmsg and checks the deadline
QueryStart ==
    /\ QAt("start")
    /\ LET f == Top(tasks.stack)
       IN  tasks' = IF QLate(now) THEN QRet(ErrTimeout)
                    ELSE QGo([f EXCEPT !.pc = "udp", !.start = now,
                                       !.qmsg = Query(f.qname, f.qtype)])
    /\ UNCHANGED <<cache, now, got, timeout, chans, cur, last>>

\* The dial and the exchange over UDP: rmsg is a reply, truncated or not, or
\* none, with err set, when the dial or the exchange failed
QueryUDP ==
    /\ QAt("udp")
    /\ LET f == Top(tasks.stack)
       IN  \E dialed \in Dials :
              IF dialed
              THEN /\ got' = got \cup {Sent("udp", f)}
                   /\ \E rmsg \in QueryResponses(f.qname, f.qtype) \cup {NoMsg}, Truncated \in BOOLEAN :
                         tasks' = QGo([f EXCEPT !.rmsg = rmsg,
                                                !.err = IF rmsg = NoMsg THEN ErrNet ELSE NoErr,
                                                !.pc = IF tasks.tcpRetry /\ rmsg # NoMsg /\ Truncated
                                                       THEN "tcp" ELSE "recv"])
              ELSE /\ got' = got
                   /\ tasks' = QGo([f EXCEPT !.err = ErrNet, !.pc = "recv"])
    /\ UNCHANGED <<cache, now, timeout, chans, cur, last>>

\* The retry over TCP, with the same qmsg: the deadline is checked against
\* the same start.  The block declares an err of its own (conn, err := ...):
\* a failed dial leaves the truncated reply in rmsg, a failed exchange
\* leaves no reply in rmsg, and neither sets the err that is tested after
\* the block
QueryTCP ==
    /\ QAt("tcp")
    /\ LET f == Top(tasks.stack)
       IN  IF QLate(f.start) THEN tasks' = QRet(ErrTimeout) /\ got' = got
           ELSE \E dialed \in Dials :
                   IF dialed
                   THEN /\ got' = got \cup {Sent("tcp", f)}
                        /\ \E rmsg \in QueryResponses(f.qname, f.qtype) \cup {NoMsg} :
                              tasks' = QGo([f EXCEPT !.rmsg = rmsg, !.pc = "recv"])
                   ELSE /\ got' = got
                        /\ tasks' = QGo([f EXCEPT !.pc = "recv"])
    /\ UNCHANGED <<cache, now, timeout, chans, cur, last>>

\* rmsg.Rcode with no rmsg: the goroutine panics
NilDereference == "nil pointer dereference"

\* After the exchange: the context, the error, the RCODE, the write to the
\* cache
QueryRecv ==
    /\ QAt("recv")
    /\ LET f == Top(tasks.stack)
       IN  IF QDone
           THEN tasks' = QRet(DeadlineExceeded) /\ cache' = cache
           ELSE IF f.err # NoErr
           THEN tasks' = QRet(f.err) /\ cache' = cache
           ELSE IF f.rmsg = NoMsg
           THEN tasks' = QRet(NilDereference) /\ cache' = cache
           ELSE IF f.rmsg.Rcode = RcodeNameError /\ ~hasSOA(f.qtype, f.rmsg, cache.expire)
           THEN tasks' = QRet(NXDOMAIN) /\ cache' \in addNX(cache, f.qname, now)
           ELSE IF f.rmsg.Rcode \notin {RcodeNameError, RcodeSuccess}
           THEN tasks' = QRet(f.rmsg.Rcode) /\ cache' = cache
           ELSE \E s \in saveDNSRR(cache, f.qname,
                                   f.rmsg.Answer \o f.rmsg.Ns \o f.rmsg.Extra, NilRRs, now) :
                   /\ cache' = s.cache
                   /\ tasks' = IF f.qtype = "NS"
                               THEN QGo([f EXCEPT !.pc = "glue", !.grrs = s.rrs.s, !.i = 1])
                               ELSE QRet(NoErr)
    /\ UNCHANGED <<now, got, timeout, chans, cur, last>>

\* The glue loop at record i: an NS record whose host has no address in the
\* cache is asked for at the same server, by a nested exchangeIP
QueryGlue ==
    /\ QAt("glue")
    /\ LET f    == Top(tasks.stack)
           next == QGo([f EXCEPT !.i = f.i + 1])
       IN  tasks' =
             IF f.i > Len(f.grrs) THEN QRet(NoErr)
             ELSE IF f.grrs[f.i].Type # "NS" THEN next
             ELSE LET cg == cacheGet(cache, NoErr, f.grrs[f.i].Value, "A", now)
                  IN  IF cg.err = NXDOMAIN THEN next
                      ELSE IF cg.err # NoErr THEN QRet(NoErr)
                      ELSE IF Len(cg.rrs.s) # 0 THEN next
                      ELSE [tasks EXCEPT !.stack =
                               Pop(@) \o <<[f EXCEPT !.pc = "gluewait"],
                                           QueryFrame(f.host, f.grrs[f.i].Value, "A", f.depth + 1)>>]
    /\ UNCHANGED <<cache, now, got, timeout, chans, cur, last>>

\* The glue loop after the nested exchangeIP: an error ends the loop
QueryGlueRet ==
    /\ QAt("gluewait")
    /\ LET f == Top(tasks.stack)
       IN  tasks' = IF tasks.err # NoErr THEN QRet(NoErr)
                    ELSE QGo([f EXCEPT !.pc = "glue", !.i = f.i + 1])
    /\ UNCHANGED <<cache, now, got, timeout, chans, cur, last>>

QueryTick ==
    /\ tasks.stack # <<>>
    /\ now < MaxNow
    /\ now' = now + 1
    /\ UNCHANGED <<cache, got, timeout, tasks, chans, cur, last>>

NextQuery ==
    \/ QueryStart
    \/ QueryUDP
    \/ QueryTCP
    \/ QueryRecv
    \/ QueryGlue
    \/ QueryGlueRet
    \/ QueryTick

SpecQuery == InitQuery /\ [][NextQuery]_vars

\* ------------------------------------------------------------------ SpecDepth

\* One chain of calls of the resolver, from ResolveErr down: which function
\* calls which, with what depth, and what an error of the callee makes the
\* caller do.  The cache and the servers may answer anything: a probe of the
\* cache hits or misses, a function that could return does or goes on.
\* tasks is the chain (the stack and the error of the call that returned
\* last), got is the last thing done to the cache or to the network.

DepthFrame(fn, pc, qtype, depth) == [fn |-> fn, pc |-> pc, qtype |-> qtype, depth |-> depth]

Event(kind, depth) == [kind |-> kind, depth |-> depth]

InitDepth ==
    /\ cache = newCache(0, FALSE)
    /\ now = 0
    /\ got = Event("", 0)
    /\ timeout = 0
    /\ \E qtype \in QTypes :
          tasks = [stack |-> <<DepthFrame("resolve", "start", qtype, 0)>>, err |-> NoErr]
    /\ chans = NoChans
    /\ cur = Idle(0)
    /\ last = NoLast

DAt(fn, pc) ==
    tasks.stack # <<>> /\ Top(tasks.stack).fn = fn /\ Top(tasks.stack).pc = pc

\* The function on top returns err
DRet(err) == [stack |-> Pop(tasks.stack), err |-> err]

\* The function on top goes on at pc
DGo(pc) == [tasks EXCEPT !.stack = Pop(@) \o <<[Top(@) EXCEPT !.pc = pc]>>]

\* The function on top, now at pc, calls f
DCall(pc, f) ==
    [stack |-> Pop(tasks.stack) \o <<[Top(tasks.stack) EXCEPT !.pc = pc], f>>, err |-> NoErr]

\* The errors that a function of the chain may return, besides ErrMaxRecursion
DepthErrs == {NoErr, ErrNoResponse}

TooDeepLate(depth) == depth > MaxRecursion + 1

\* The test of resolve on the depth it has incremented
TooDeep(depth) == depth > MaxRecursion

\* resolve: the check of the depth, then the probe of the cache; a miss goes
\* on with iterateParents, whose result resolve returns
DepthResolve ==
    /\ DAt("resolve", "start")
    /\ LET f     == Top(tasks.stack)
           depth == f.depth + 1
       IN  IF TooDeep(depth)
           THEN /\ tasks' = DRet(ErrMaxRecursion)
                /\ got' = Event("maxrecursion", depth)
           ELSE /\ got' = Event("probe", depth)
                /\ \/ \E err \in DepthErrs : tasks' = DRet(err)
                   \/ tasks' = [tasks EXCEPT !.stack =
                                   Pop(@) \o <<DepthFrame("iterate", "head", f.qtype, depth)>>]
    /\ UNCHANGED <<cache, now, timeout, chans, cur, last>>

\* iterateParents at a parent: it gives up, or resolves the name servers
DepthIterHead ==
    /\ DAt("iterate", "head")
    /\ LET f == Top(tasks.stack)
       IN  \/ \E err \in DepthErrs : tasks' = DRet(err)
           \/ tasks' = DCall("ns", DepthFrame("resolve", "start", "NS", f.depth))
    /\ UNCHANGED <<cache, now, got, timeout, chans, cur, last>>

\* iterateParents after the resolve of the name servers: an error returns or
\* moves to the next parent; else the cache is probed and a goroutine runs
\* exchange
DepthIterNS ==
    /\ DAt("iterate", "ns")
    /\ LET f == Top(tasks.stack)
       IN  IF tasks.err # NoErr
           THEN /\ tasks' = DGo("head")
                /\ got' = got
           ELSE /\ got' = Event("probe", f.depth)
                /\ \/ tasks' = DRet(NoErr)
                   \/ tasks' = DCall("wait", DepthFrame("exchange", "arrs", f.qtype, f.depth))
    /\ UNCHANGED <<cache, now, timeout, chans, cur, last>>

\* iterateParents after the exchange: records go to resolveCNAMEs, an error
\* returns, moves to the next parent or ends the walk
DepthIterWait ==
    /\ DAt("iterate", "wait")
    /\ LET f == Top(tasks.stack)
       IN  IF tasks.err = NoErr
           THEN tasks' = [tasks EXCEPT !.stack =
                             Pop(@) \o <<DepthFrame("cnames", "loop", f.qtype, f.depth)>>]
           ELSE \/ tasks' = DRet(tasks.err)
                \/ tasks' = DGo("head")
    /\ UNCHANGED <<cache, now, got, timeout, chans, cur, last>>

\* resolveCNAMEs: the target of a CNAME record is resolved, or the records
\* are returned
DepthCNAMEs ==
    /\ DAt("cnames", "loop")
    /\ LET f == Top(tasks.stack)
       IN  \/ tasks' = DRet(NoErr)
           \/ tasks' = DCall("add", DepthFrame("resolve", "start", f.qtype, f.depth))
    /\ UNCHANGED <<cache, now, got, timeout, chans, cur, last>>

\* resolveCNAMEs after the resolve of the target: its records, if any, are
\* added to the cache
DepthCNAMEsAdd ==
    /\ DAt("cnames", "add")
    /\ tasks' = DGo("loop")
    /\ \/ got' = got
       \/ tasks.err = NoErr /\ got' = Event("write", Top(tasks.stack).depth)
    /\ UNCHANGED <<cache, now, timeout, chans, cur, last>>

\* exchange: the resolve of the addresses of the host
DepthExchange ==
    /\ DAt("exchange", "arrs")
    /\ tasks' = DCall("ip", DepthFrame("resolve", "start", "A", Top(tasks.stack).depth))
    /\ UNCHANGED <<cache, now, got, timeout, chans, cur, last>>

\* exchange after that resolve: its error is returned; else exchangeIP with
\* an address, or an error when the addresses have run out
DepthExchangeIPs ==
    /\ DAt("exchange", "ip")
    /\ LET f == Top(tasks.stack)
       IN  IF tasks.err # NoErr THEN tasks' = DRet(tasks.err)
           ELSE \/ tasks' = DRet(ErrNoARecords)
                \/ tasks' = DCall("ret", DepthFrame("exchangeIP", "start", f.qtype, f.depth))
    /\ UNCHANGED <<cache, now, got, timeout, chans, cur, last>>

\* exchange after exchangeIP: it returns, or tries the next address
DepthExchangeRet ==
    /\ DAt("exchange", "ret")
    /\ IF tasks.err = NoErr THEN tasks' = DRet(NoErr)
       ELSE \/ tasks' = DRet(tasks.err)
            \/ tasks' = [DGo("ip") EXCEPT !.err = NoErr]
    /\ UNCHANGED <<cache, now, got, timeout, chans, cur, last>>

\* exchangeIP: too late for an exchange, or the query is sent
DepthSend ==
    /\ DAt("exchangeIP", "start")
    /\ \/ tasks' = DRet(ErrTimeout) /\ got' = got
       \/ tasks' = DGo("recv") /\ got' = Event("exchange", Top(tasks.stack).depth)
    /\ UNCHANGED <<cache, now, timeout, chans, cur, last>>

\* exchangeIP after the exchange: an error returns; else the cache is
\* written (addNX, which returns NXDOMAIN, or saveDNSRR), and an NS query goes
\* on to its glue loop
DepthSave ==
    /\ DAt("exchangeIP", "recv")
    /\ LET f == Top(tasks.stack)
       IN  \/ tasks' = DRet(ErrNet) /\ got' = got
           \/ /\ got' = Event("write", f.depth)
              /\ \/ tasks' = DRet(NXDOMAIN)
                 \/ tasks' = IF f.qtype = "NS" THEN DGo("glue") ELSE DRet(NoErr)
    /\ UNCHANGED <<cache, now, timeout, chans, cur, last>>

\* The glue loop of exchangeIP: the cache is probed for the address of an NS
\* target, which a nested exchangeIP asks for when the cache has none
DepthGlue ==
    /\ DAt("exchangeIP", "glue")
    /\ LET f == Top(tasks.stack)
       IN  /\ got' = Event("probe", f.depth)
           /\ \/ tasks' = DRet(NoErr)
              \/ tasks' = DCall("glue", DepthFrame("exchangeIP", "start", "A", f.depth + 1))
    /\ UNCHANGED <<cache, now, timeout, chans, cur, last>>

NextDepth ==
    \/ DepthResolve
    \/ DepthIterHead
    \/ DepthIterNS
    \/ DepthIterWait
    \/ DepthCNAMEs
    \/ DepthCNAMEsAdd
    \/ DepthExchange
    \/ DepthExchangeIPs
    \/ DepthExchangeRet
    \/ DepthSend
    \/ DepthSave
    \/ DepthGlue

SpecDepth == InitDepth /\ [][NextDepth]_vars

\* ------------------------------------------------------------------ SpecExchange

\* exchange on its own, from the records that resolve(host, "A") returned:
\* exchangeIP may return anything, and the context may be cancelled at any
\* time.  tasks holds the frame of exchange, the records it started from,
\* the errors of the exchangeIP calls so far and what exchange returned.

MaxARecords == 3    \* the host has up to MaxARecords records

ARecord(type) == RR(<<"ns", "com">>, type, <<"ip">>, 0)

RECURSIVE ARecordLists(_)
ARecordLists(n) ==
    IF n = 0 THEN {<<>>}
    ELSE LET shorter == ARecordLists(n - 1)
         IN  shorter \cup {<<ARecord(type)>> \o l :
                              type \in {"A", "AAAA"}, l \in {x \in shorter : Len(x) = n - 1}}

\* What an exchangeIP may return
IPResults ==
    {[rrs |-> MkRRs(<<ARecord("A")>>), err |-> NoErr]}
    \cup {[rrs |-> NilRRs, err |-> e] : e \in {NoErr, NXDOMAIN, ErrTimeout, ErrNet, RcodeServerFailure}}

InitExchange ==
    /\ cache = newCache(0, FALSE)
    /\ now = 0
    /\ got = NoGet
    /\ timeout = 0
    /\ \E arrs \in ARecordLists(MaxARecords) :
          tasks = [pc |-> "arrs", arrs |-> arrs, tried |-> <<>>, cerr |-> NoErr, ret |-> NoRet,
                   f |-> [ExchangeFrame(<<"ns", "com">>, <<"com">>, "A", 1) EXCEPT !.arrs = arrs]]
    /\ chans = NoChans
    /\ cur = Idle(0)
    /\ last = NoLast

\* exchange makes o of its frame: it returns, or calls exchangeIP
ExchangeDoes(o, tried) ==
    tasks' = IF o.ret
             THEN [tasks EXCEPT !.pc = "done", !.tried = tried,
                                !.ret = [set |-> TRUE, rrs |-> o.rrs, err |-> o.err, via |-> ""]]
             ELSE [tasks EXCEPT !.pc = "ip", !.tried = tried, !.f = o.frames[1]]

\* exchange enters its loop over the records
ExchangeLoop ==
    /\ tasks.pc = "arrs"
    /\ ExchangeDoes(ExchangeNext(tasks.f), tasks.tried)
    /\ UNCHANGED <<cache, now, got, timeout, chans, cur, last>>

\* exchangeIP returns r
ExchangeTry ==
    /\ tasks.pc = "ip"
    /\ \E r \in IPResults :
          ExchangeDoes(ExchangeAfterIP(tasks.f, r, tasks.cerr), Append(tasks.tried, r.err))
    /\ UNCHANGED <<cache, now, got, timeout, chans, cur, last>>

\* The context of exchange is cancelled
ExchangeCancel ==
    /\ tasks.pc = "ip" /\ tasks.cerr = NoErr
    /\ tasks' = [tasks EXCEPT !.cerr = Canceled]
    /\ UNCHANGED <<cache, now, got, timeout, chans, cur, last>>

NextExchange == ExchangeLoop \/ ExchangeTry \/ ExchangeCancel

SpecExchange == InitExchange /\ [][NextExchange]_vars

\* ------------------------------------------------------------------ claims

\* The entry of qname in cache c: with records, or without (NXDOMAIN)
Positive(c, qname) == Has(c.entries, qname) /\ c.entries[qname].rrs # {}
Negative(c, qname) == Has(c.entries, qname) /\ c.entries[qname].rrs = {}

\* In this step task t leaves the write of exchangeIP behind it
Saved(t) == At(t, "exchangeIP", "save") /\ ~AtIn(tasks', t, "exchangeIP", "save")

\* In this step task t processes a NameError for the name of the call
SavedNX(t) ==
    /\ Saved(t)
    /\ Top(tasks[t].stack).nx
    /\ cur.active /\ tasks[t].call = cur.n
    /\ Top(tasks[t].stack).qname = cur.qname

\* In this step the call probes the cache for its name, with a live context
Probed ==
    /\ cur.active
    /\ At(0, "resolve", "start")
    /\ Top(tasks[0].stack).depth = 0
    /\ tasks[0].err = NoErr
    /\ ~AtIn(tasks', 0, "resolve", "start")

\* The context error that a call in mode m has on entry
EntryErr(m) ==
    IF m = "cancelled" THEN Canceled
    ELSE IF timeout = 0 THEN DeadlineExceeded ELSE NoErr

Returned == last.n > 0

\* C1 as stated, for the first call of a resolver: when a nameserver answers
\* NameError for the name X of the call, the cache then holds a negative
\* entry for X
NameErrorCached ==
    [][\A t \in DOMAIN tasks :
          (SavedNX(t) /\ cur.n = 1) => Negative(cache', cur.qname)]_vars

\* C1: when a nameserver answers NameError for the name X of the call, the
\* cache then holds a negative entry for X unless it held records for X, and
\* then it is left as it was; and a call for X with a live context that finds
\* a negative entry for X returns NXDOMAIN, no records, and sends no query
NegativeEntry ==
    [][/\ \A t \in DOMAIN tasks :
            SavedNX(t) => IF Positive(cache, cur.qname) THEN cache' = cache
                          ELSE Negative(cache', cur.qname)
       /\ (Probed /\ Negative(cache, cur.qname)) =>
            /\ ~cur'.active
            /\ last'.err = NXDOMAIN
            /\ last'.rrs = NilRRs
            /\ ~last'.netUsed]_vars

\* A second call finds the negative entry that a NameError left for its name
NegativeEntryHit ==
    /\ Returned /\ last.n = 2
    /\ last.warm = "negative"
    /\ last.err = NXDOMAIN /\ ~last.netUsed
    /\ Negative(cache, last.qname)

\* C2: Resolve returns the empty non-nil sequence exactly when ResolveErr
\* returns NXDOMAIN, nil when it returns another error, and its records when
\* the error is nil
ResolveWrapper ==
    Returned =>
        /\ last.out = emptyRRs <=> last.err = NXDOMAIN
        /\ last.err \notin {NoErr, NXDOMAIN} => last.out = NilRRs
        /\ last.err = NoErr => last.out = last.rrs

\* A call that sent a query returns NXDOMAIN, and Resolve the empty sequence
ResolveNXDOMAIN ==
    Returned /\ last.netUsed /\ last.err = NXDOMAIN /\ last.out = emptyRRs

\* C3: in every reachable state the cache holds at most capacity keys
CacheBound == NumKeys(cache) <= cache.capacity

\* A key that get found with records is gone from a full cache that does not
\* expire records: it was evicted to make room
Evicted ==
    /\ ~cache.expire
    /\ NumKeys(cache) = cache.capacity
    /\ got.rrs.s # <<>>
    /\ ~Has(cache.entries, got.key)

\* C4: a call whose context is done on entry returns the error of the
\* context and no records, sends no query and does not write to the cache
DoneOnEntry ==
    (Returned /\ EntryErr(last.mode) # NoErr) =>
        /\ last.err = EntryErr(last.mode)
        /\ last.rrs = NilRRs
        /\ ~last.netUsed
        /\ ~last.wrote

\* A call with a cancelled context for a name whose answer was in the cache
DoneOnEntryCached ==
    /\ Returned /\ last.mode = "cancelled"
    /\ last.warm = "positive"
    /\ last.err = Canceled

\* C5: when a nested resolve or an exchange of the walk returns Canceled to
\* the caller's thread, the call returns Canceled
CancelPropagates ==
    (Returned /\ "canceled" \in last.hist) => last.err = Canceled

\* C6: when an exchange of the walk fails with Timeout and the caller does
\* not cancel, the call returns Timeout or DeadlineExceeded
TimeoutAborts ==
    (Returned /\ "timeout" \in last.hist /\ ~last.cancelled) =>
        last.err \in {ErrTimeout, DeadlineExceeded}

\* The walk of a call for a type other than NS has ended without an answer,
\* without NXDOMAIN, Timeout, cancellation or the deadline
Exhausted ==
    /\ Returned /\ last.qtype # "NS"
    /\ last.via \notin {"cache", "reprobe", "answer"}
    /\ last.err \notin {NXDOMAIN, ErrTimeout, DeadlineExceeded, Canceled, ErrMaxRecursion}
    /\ ~last.cancelled /\ last.hist \cap {"timeout", "canceled"} = {}
    /\ now < timeout

\* C7 as stated: an exhausted walk returns NoResponse
NoResponse == Exhausted => last.err = ErrNoResponse

\* C7: an exhausted walk returns NoResponse when the name has one label,
\* and otherwise no records with a nil error
NoResponseTLD ==
    Exhausted => IF CountLabel(last.qname) = 1 THEN last.err = ErrNoResponse
                 ELSE last.err = NoErr /\ last.rrs = NilRRs

\* The walk for a name of two labels is exhausted after a query was sent
ExhaustedTwoLabels ==
    Exhausted /\ CountLabel(last.qname) = 2 /\ last.netUsed /\ last.err = NoErr

\* The errors named after an RCODE
RcodeErrors == {RcodeServerFailure, "FORMERR", "NOTIMP", "REFUSED"}

\* C8 as stated: every error of a call is NXDOMAIN, Timeout,
\* DeadlineExceeded, Canceled, MaxRecursion, NoResponse or RCODE-named
ErrorKinds ==
    (Returned /\ last.err # NoErr) =>
        last.err \in {NXDOMAIN, ErrTimeout, DeadlineExceeded, Canceled,
                      ErrMaxRecursion, ErrNoResponse} \cup RcodeErrors

\* C8: every error of a call is NXDOMAIN, Timeout, DeadlineExceeded,
\* Canceled, MaxRecursion, NoResponse, NoARecords or MaxIPs
ErrorKindsNS ==
    (Returned /\ last.err # NoErr) =>
        last.err \in {NXDOMAIN, ErrTimeout, DeadlineExceeded, Canceled,
                      ErrMaxRecursion, ErrNoResponse, ErrNoARecords, ErrMaxIPs}

\* A call for NS records returns NoARecords after a query was sent
NoARecordsReturned ==
    Returned /\ last.qtype = "NS" /\ last.netUsed /\ last.err = ErrNoARecords

\* C9: when the first call gets a CNAME record for its name X from a
\* nameserver and returns records, they include the CNAME record and records
\* of the type asked for, and the entry of X holds records of that type
CNAMEChained ==
    (/\ Returned /\ last.n = 1 /\ "cname" \in last.hist
     /\ last.err = NoErr /\ ~last.cancelled /\ now < timeout) =>
        /\ \E k \in 1..Len(last.rrs.s) :
              last.rrs.s[k].Type = "CNAME" /\ last.rrs.s[k].Name = last.qname
        /\ \E k \in 1..Len(last.rrs.s) : last.rrs.s[k].Type = last.qtype
        /\ \E rr \in Stored(cache) : rr.Type = last.qtype /\ Positive(cache, last.qname)
                                     /\ rr \in cache.entries[last.qname].rrs

\* The records of type qtype (all of them when qtype is "") among S
OfType(S, qtype) == {rr \in S : qtype = "" \/ rr.Type = qtype}

LockEntry(c) == IF Has(c.entries, LockKey) THEN c.entries[LockKey].rrs ELSE {}

\* Thread i is a get that has its result and still holds the read lock
Reading(i) == tasks[i].op = "get" /\ tasks[i].pc = "unlock"

\* C12: in expiry mode a get that runs concurrently with add and addNX on
\* its key returns exactly the records stored for the key whose expiry is
\* zero or after the time of the get
ExpiryFilter ==
    \A i \in DOMAIN tasks :
        (Reading(i) /\ cache.expire) =>
            LET live == {rr \in LockEntry(cache) : rr.Expiry = 0 \/ rr.Expiry > tasks[i].t}
            IN  /\ SeqToSet(tasks[i].res.s) = live
                /\ Len(tasks[i].res.s) = Cardinality(live)

\* A get in expiry mode returns a record and leaves out an expired one
ExpiredSkipped ==
    \E i \in DOMAIN tasks :
        /\ Reading(i) /\ cache.expire
        /\ tasks[i].res.s # <<>>
        /\ \E rr \in LockEntry(cache) : rr.Expiry # 0 /\ rr.Expiry <= tasks[i].t

\* C17: concurrent adds to one key lose no record, and a get observes the
\* entry as it is between whole operations: when both writers have returned
\* the entry holds the record of each add; while a get holds the read lock no
\* writer is inside and its result is what get returns on the cache as it
\* is; and outside a write the map holds no entry that add has made and not
\* yet filled
Linearized ==
    /\ (tasks[1].pc = "done" /\ tasks[2].pc = "done") =>
          /\ tasks[1].rr \in LockEntry(cache)
          /\ tasks[2].op = "add" => tasks[2].rr \in LockEntry(cache)
    /\ \A i \in DOMAIN tasks :
          Reading(i) => /\ ~cache.m.w
                        /\ tasks[i].res = get(cache, LockKey, tasks[i].t)
    /\ ~cache.m.w =>
          \A k \in DOMAIN cache.entries : cache.entries[k].nil \/ cache.entries[k].rrs # {}

\* Both adds have returned and the entry holds both records; the get ran
\* between them and saw the record of one add without the other's
BetweenAdds ==
    /\ \A i \in DOMAIN tasks : tasks[i].pc = "done"
    /\ tasks[2].op = "add"
    /\ {tasks[1].rr, tasks[2].rr} \subseteq LockEntry(cache)
    /\ Cardinality(SeqToSet(tasks[3].res.s) \cap {tasks[1].rr, tasks[2].rr}) = 1

\* C13: get returns nil for a key without an entry, the empty non-nil
\* sequence for a key with a negative entry, and a non-empty sequence for a
\* key whose entry holds records
ThreeCases ==
    \A k \in CKeys :
        LET r == get(cache, k, now)
        IN  /\ ~Has(cache.entries, k) => r = NilRRs
            /\ Negative(cache, k) => r = emptyRRs
            /\ Positive(cache, k) => r.s # <<>>

\* The last operation was a write
Wrote == got.op \in {"add", "addNX"}

\* The last operation was an add of a record to a key with a negative entry
Upgraded == got.op = "add" /\ Negative(got.before, got.key)

\* C14 as stated: after addNX(X) and add(X, R), get(X) returns R exactly once
NXUpgrade ==
    Upgraded => get(cache, got.key, now).s = <<got.rr>>

\* C14: add(X, R) on a negative entry leaves an entry that holds R and
\* nothing else, and no other key changes; get(X) returns R exactly once,
\* unless the cache is in expiry mode and R has expired, and then it returns
\* the empty sequence
NXUpgradeLive ==
    Upgraded =>
        /\ cache = [got.before EXCEPT !.entries = Put(@, got.key, MapEntry({got.rr}))]
        /\ get(cache, got.key, now).s =
              IF cache.expire /\ got.rr.Expiry # 0 /\ got.rr.Expiry <= now
              THEN <<>> ELSE <<got.rr>>

\* A record was added to a negative entry and get returns it
UpgradedEntry ==
    Upgraded /\ get(cache, got.key, now).s = <<got.rr>>

\* C19: addNX on a key that has an entry leaves the cache as it was
AddNXNoOp ==
    (got.op = "addNX" /\ Has(got.before.entries, got.key)) => cache = got.before

\* addNX was called on a key that holds records, in a full cache
AddNXOnPositive ==
    /\ got.op = "addNX" /\ Positive(got.before, got.key)
    /\ NumKeys(got.before) = got.before.capacity
    /\ cache = got.before

\* C20 as stated: after any write the cache holds fewer keys than capacity
WriteBelow == Wrote => NumKeys(cache) < cache.capacity

\* C20: after a write the cache holds as many keys as before when the key
\* had an entry, one more when it had none and the cache was not full, and
\* exactly capacity when it had none and the cache was full
WriteBound ==
    Wrote =>
        NumKeys(cache) =
            IF Has(got.before.entries, got.key) THEN NumKeys(got.before)
            ELSE IF NumKeys(got.before) < cache.capacity THEN NumKeys(got.before) + 1
            ELSE cache.capacity

\* A write of a new key to a full cache of capacity two or more: a key was
\* evicted and the cache is full again
WriteFull ==
    /\ Wrote /\ ~Has(got.before.entries, got.key)
    /\ cache.capacity >= 2
    /\ NumKeys(got.before) = cache.capacity
    /\ NumKeys(cache) = cache.capacity

\* The walk of the call itself (not a nested one) is at pc in function fn
CallAt(fn, pc) == cur.active /\ At(0, fn, pc) /\ Len(tasks[0].stack) = 1

\* C15: when the walk of the call takes the records of an exchange, the
\* records owned by qname among those that the step got for its name servers
\* go with them into resolveCNAMEs, and what the call then returns holds
\* every record that resolveCNAMEs was given
AnswerHasNS ==
    [][/\ CallAt("iterate", "wait") =>
            LET f    == Top(tasks[0].stack)
                ch   == chans[f.chan]
                both == SeqToSet(Head(ch.rrs).s) \cup
                           {nrr \in SeqToSet(f.nrrs.s) : nrr.Type = "NS" /\ nrr.Name = f.qname}
            IN  /\ (~cur'.active /\ last'.via = "answer") =>
                      (ch.rrs # <<>> /\ both \subseteq SeqToSet(last'.rrs.s))
                /\ AtIn(tasks', 0, "cnames", "wait") =>
                      (ch.rrs # <<>> /\ both \subseteq SeqToSet(Top(tasks'[0].stack).crrs))
       /\ (CallAt("cnames", "wait") /\ ~cur'.active) =>
            /\ last'.via = "answer"
            /\ SeqToSet(Top(tasks[0].stack).crrs) \subseteq SeqToSet(last'.rrs.s)]_vars

\* The first call, for A records, is answered by an exchange and returns an
\* A record and an NS record of its name
AnswerWithNS ==
    /\ Returned /\ last.n = 1 /\ last.via = "answer" /\ last.qtype = "A"
    /\ \E k \in 1..Len(last.rrs.s) :
          last.rrs.s[k].Type = "A" /\ last.rrs.s[k].Name = last.qname
    /\ \E k \in 1..Len(last.rrs.s) :
          last.rrs.s[k].Type = "NS" /\ last.rrs.s[k].Name = last.qname

\* The step at which a call returns records that an exchange answered
AnswerReturns == cur.active /\ ~cur'.active /\ last'.via = "answer" /\ last'.err = NoErr

\* What a call for the name and type of the last call finds in the cache c
Hit(c, t) == cacheGet(c, NoErr, last'.qname, last'.qtype, t)

\* C16 as stated: the records a call returns after an exchange answered it
\* are the records that a call for the same name and type then gets from the
\* cache
SameAsCached ==
    [][AnswerReturns =>
          /\ Hit(cache', now').err = NoErr
          /\ SeqToSet(last'.rrs.s) = SeqToSet(Hit(cache', now').rrs.s)]_vars

\* C16: every record of the name and type asked for that a call returns
\* after an exchange answered it is among the records that a call for the
\* same name and type then gets from the cache
AnswerCached ==
    [][AnswerReturns =>
          {rr \in SeqToSet(last'.rrs.s) : rr.Name = last'.qname /\ rr.Type = last'.qtype}
              \subseteq SeqToSet(Hit(cache', now').rrs.s)]_vars

\* A call has returned, after an exchange, a record of the name and type
\* asked for that the cache now holds, with records that the cache does not
\* give for that name and type
AnswerBeyondCache ==
    /\ Returned /\ ~cur.active /\ last.via = "answer" /\ last.err = NoErr
    /\ LET hit == SeqToSet(cacheGet(cache, NoErr, last.qname, last.qtype, now).rrs.s)
       IN  /\ \E rr \in SeqToSet(last.rrs.s) :
                 rr.Name = last.qname /\ rr.Type = last.qtype /\ rr \in hit
           /\ \E rr \in SeqToSet(last.rrs.s) : rr \notin hit

\* C18: every query sent to a name server, over UDP or over TCP, by
\* exchangeIP or by the exchangeIP of its glue loop, has the
\* recursion-desired flag off
NoRecursionDesired == \A q \in got : ~q.qmsg.RecursionDesired

\* Queries were sent over UDP, over TCP, and from the glue loop
AllKindsSent ==
    /\ \E q \in got : q.net = "udp" /\ q.depth = 0
    /\ \E q \in got : q.net = "tcp"
    /\ \E q \in got : q.depth > 0

\* The last operation wrote a key that had no entry to a full cache
WroteNewToFull ==
    /\ Wrote /\ ~Has(got.before.entries, got.key)
    /\ NumKeys(got.before) = got.before.capacity

\* The keys that the last operation removed
Removed == (DOMAIN got.before.entries) \ (DOMAIN cache.entries)

\* C21: a write of a new key to a cache that holds capacity keys removes
\* exactly one of them, with or without expiry, and the cache holds capacity
\* keys again
OneEvicted ==
    WroteNewToFull =>
        /\ Cardinality(Removed) = 1
        /\ DOMAIN cache.entries = ((DOMAIN got.before.entries) \ Removed) \cup {got.key}
        /\ NumKeys(cache) = cache.capacity

\* A new key was written to a full cache of capacity two, once with expiry:
\* one key is gone, the other is still there
OneEvictedOfTwo ==
    /\ WroteNewToFull /\ cache.expire /\ cache.capacity = 2
    /\ Cardinality(Removed) = 1
    /\ \E k \in DOMAIN got.before.entries : Has(cache.entries, k)

\* The entry has records and all of them have expired at t
AllExpired(e, t) == e.rrs # {} /\ \A rr \in e.rrs : Expired(rr, t)

\* The entry has a record that has not expired at t
HasLive(e, t) == \E rr \in e.rrs : ~Expired(rr, t)

\* C22: in expiry mode, a write of a new key to a full cache that holds an
\* entry whose records have all expired removes no entry that holds a record
\* that has not expired
ExpiredFirst ==
    [][(/\ now' = now
        /\ got'.op \in {"add", "addNX"} /\ got'.before = cache
        /\ cache.expire /\ NumKeys(cache) = cache.capacity
        /\ ~Has(cache.entries, got'.key)
        /\ \E k \in DOMAIN cache.entries : AllExpired(cache.entries[k], now))
       => \A k \in (DOMAIN cache.entries) \ (DOMAIN cache'.entries) :
              ~HasLive(cache.entries[k], now)]_cvars

\* A new key was written to a full expiring cache that held an entry with
\* expired records only and an entry with a live record: the first is gone,
\* the second is kept
ExpiredEvicted ==
    /\ WroteNewToFull /\ cache.expire
    /\ \E k \in Removed : AllExpired(got.before.entries[k], now)
    /\ \E k \in DOMAIN got.before.entries :
          HasLive(got.before.entries[k], now) /\ Has(cache.entries, k)

\* C30: get never returns two records with the same name, type and value,
\* whatever their expiry
Deduplicated ==
    \A k \in CKeys :
        LET s == get(cache, k, now).s
        IN  \A i, j \in 1..Len(s) :
               (s[i].Name = s[j].Name /\ s[i].Type = s[j].Type /\ s[i].Value = s[j].Value)
                   => i = j

\* C23: no function of the chain runs at a depth above MaxRecursion, and
\* nothing is done to the cache or to the network at such a depth; a resolve
\* entered at MaxRecursion returns ErrMaxRecursion at once
DepthBounded ==
    /\ [](/\ \A i \in 1..Len(tasks.stack) : tasks.stack[i].depth <= MaxRecursion
          /\ got.kind \in {"probe", "write", "exchange"} => got.depth <= MaxRecursion)
    /\ [][(DAt("resolve", "start") /\ Top(tasks.stack).depth >= MaxRecursion)
             => /\ tasks' = DRet(ErrMaxRecursion)
                /\ got'.kind = "maxrecursion"]_vars

\* A resolve was refused at the end of a chain that went through
\* resolveCNAMEs and through exchange
DepthReached ==
    /\ got.kind = "maxrecursion" /\ tasks.err = ErrMaxRecursion
    /\ \E i \in 1..Len(tasks.stack) : tasks.stack[i].fn = "cnames"
    /\ \E i \in 1..Len(tasks.stack) : tasks.stack[i].fn = "exchange"

\* Less than TypicalResponseTime is left before the deadline of the context
LittleTimeLeft == tasks.deadline /\ timeout - now < TypicalResponseTime

\* C24: an exchangeIP that starts with less than TypicalResponseTime left
\* returns ErrTimeout, sends nothing and leaves the cache as it is
FailsFast ==
    [][(QAt("start") /\ LittleTimeLeft /\ tasks' # tasks)
          => /\ tasks' = QRet(ErrTimeout)
             /\ got' = got
             /\ cache' = cache]_vars

\* exchangeIP has returned ErrTimeout before the deadline, with nothing sent
\* and nothing in the cache
FailedFast ==
    /\ tasks.stack = <<>> /\ tasks.err = ErrTimeout
    /\ LittleTimeLeft /\ now < timeout
    /\ got = {} /\ cache.entries = << >>

\* C25: at the retry over TCP of a truncated reply, with less than
\* TypicalResponseTime left, exchangeIP returns ErrTimeout and sends nothing
RetryRechecks ==
    [][(QAt("tcp") /\ LittleTimeLeft /\ tasks' # tasks)
          => /\ tasks' = QRet(ErrTimeout)
             /\ got' = got]_vars

\* The errors of exchangeIP that end exchange
Final == {NoErr, NXDOMAIN, ErrTimeout}

\* The A records among the records of the host
NumA == Cardinality({i \in 1..Len(tasks.arrs) : tasks.arrs[i].Type = "A"})

\* What C26 says of exchange whatever the host's records, given the error
\* that exchange returns when every exchangeIP failed with another error
\* under a live context
ExchangeReturns(allFailed) ==
    tasks.pc = "done" =>
        LET n == Len(tasks.tried)
        IN  /\ n <= MaxIPs
            /\ \A i \in 1..n : tasks.tried[i] \in Final => i = n
            /\ IF n > 0 /\ tasks.tried[n] \in Final THEN tasks.ret.err = tasks.tried[n]
               ELSE IF n > 0 /\ tasks.cerr # NoErr THEN tasks.ret.err = tasks.cerr
               ELSE tasks.ret.err = allFailed

\* C26 as stated: when every exchangeIP fails with another error, exchange
\* returns NoARecords however many A records the host has
AllFailNoARecords == ExchangeReturns(ErrNoARecords)

\* C26: exchange calls exchangeIP for at most MaxIPs A records; it returns
\* what the first exchangeIP that gives no error, NXDOMAIN or Timeout
\* returned; after another error under a cancelled context it returns the
\* error of the context; and when every exchangeIP failed it returns
\* NoARecords for a host with at most MaxIPs A records, MaxIPs for a host
\* with more
AllFailCapped ==
    ExchangeReturns(IF NumA > MaxIPs THEN ErrMaxIPs ELSE ErrNoARecords)

\* exchange returned MaxIPs after MaxIPs calls of exchangeIP that failed
CappedAtMaxIPs ==
    /\ tasks.pc = "done" /\ tasks.ret.err = ErrMaxIPs
    /\ Len(tasks.tried) = MaxIPs /\ tasks.cerr = NoErr

\* In this step exchangeIP, under a live context, processes a reply with
\* RCODE NameError
GotNameError ==
    /\ QAt("recv") /\ tasks' # tasks /\ ~QDone
    /\ Top(tasks.stack).rmsg.Rcode = RcodeNameError

\* The reply that exchangeIP processes answers an NS query and has a SOA
\* record in its authority section
SOAForNS ==
    LET f == Top(tasks.stack)
    IN  f.qtype = "NS" /\ \E k \in 1..Len(f.rmsg.Ns) : f.rmsg.Ns[k].type = "SOA"

\* The reply is not taken for NXDOMAIN and leaves no negative entry
Spared(qname) ==
    /\ tasks' # QRet(NXDOMAIN)
    /\ Negative(cache', qname) => Negative(cache, qname)

\* exchangeIP returns NXDOMAIN, and the cache gets no record and keeps what
\* it holds for the other names
Refused(qname) ==
    /\ tasks' = QRet(NXDOMAIN)
    /\ Stored(cache') = Stored(cache)
    /\ \A k \in (DOMAIN cache.entries) \ {qname} :
          Has(cache'.entries, k) /\ cache'.entries[k] = cache.entries[k]

\* C27 as stated: after every other NameError reply the cache holds a
\* negative entry for qname
NameErrorNegative ==
    [][GotNameError =>
          LET qname == Top(tasks.stack).qname
          IN  IF SOAForNS THEN Spared(qname)
              ELSE Refused(qname) /\ Negative(cache', qname)]_vars

\* C27: a NameError reply to an NS query with a SOA record in its authority
\* section writes no negative entry and does not return NXDOMAIN; every other
\* NameError reply returns NXDOMAIN and caches no record, and leaves a
\* negative entry for qname unless the cache held records for qname, which
\* it then keeps
NameErrorSOASpared ==
    [][GotNameError =>
          LET qname == Top(tasks.stack).qname
          IN  IF SOAForNS THEN Spared(qname)
              ELSE /\ Refused(qname)
                   /\ IF Positive(cache, qname) THEN cache' = cache
                      ELSE Negative(cache', qname)]_vars

\* exchangeIP has processed a NameError reply with a SOA record to an NS
\* query: it is in its glue loop and the cache has no entry for qname
SOAReplyProcessed ==
    /\ QAt("glue")
    /\ Top(tasks.stack).rmsg.Rcode = RcodeNameError
    /\ ~Has(cache.entries, Top(tasks.stack).qname)

\* C28: no query for a name of more than one label is ever sent to a root
\* server, the queries of the glue loop included
RootAskedOnlyTLD ==
    \A q \in got : q.host \in RootServers => CountLabel(q.qmsg.Name) <= 1

\* C29: every record of a positive entry of the cache has the key of the
\* entry as its owner name, whatever calls were made, those that follow a
\* CNAME record included
OwnerIsKey ==
    \A k \in DOMAIN cache.entries : \A rr \in cache.entries[k].rrs : rr.Name = k

\* A call that got a CNAME record for its name has returned, and the cache
\* holds positive entries for the name and for the target of the CNAME
CNAMEFollowed ==
    /\ Returned /\ "cname" \in last.hist /\ last.err = NoErr
    /\ Positive(cache, last.qname)
    /\ \E rr \in cache.entries[last.qname].rrs :
          rr.Type = "CNAME" /\ Positive(cache, rr.Value)

\* ------------------------------------------------------------------ SpecRoot

\* The two caches a resolver works with: its own (cache) and the root hints
\* of the process (got.root, as init of root.go leaves it).  The actions are
\* the statements of the resolver that touch a cache, each on the cache the
\* statement names; got.op is the last of them.

saveDNSRROnRoot == "root"

\* r.cache.add(rr.Name, rr) of saveDNSRR
saveDNSRROn == "own"

\* r.cache.addNX(qname) of exchangeIP
addNXOn == "own"

\* r.cache.add(qname, rr) of resolveCNAMEs
resolveCNAMEsOn == "own"

\* The names of the root hints, and names below them
RootNames == {Root, <<"a", "net">>, <<"com">>}

\* Records a response may carry, those of names of the root hints included
RootWire ==
    {DRR(Root, "NS", <<"b", "net">>), DRR(<<"a", "net">>, "A", <<"ip", "b">>),
     DRR(<<"com">>, "A", <<"ip", "com">>)}

RootState(root, op, key, rrs) == [root |-> root, op |-> op, key |-> key, rrs |-> rrs]

InitRoot ==
    /\ \E expire \in BOOLEAN : cache = newCache(0, expire)
    /\ now = 1
    /\ got = RootState(rootCache, "", Root, NilRRs)
    /\ NoResolver

\* The cache a statement works on
CacheOn(which) == IF which = "root" THEN got.root ELSE cache

\* The statement on cache which leaves c2 there
WriteOn(which, c2, op, key) ==
    IF which = "root"
    THEN cache' = cache /\ got' = RootState(c2, op, key, NilRRs)
    ELSE cache' = c2 /\ got' = RootState(got.root, op, key, NilRRs)

RootSave ==
    \E qname \in RootNames \ {Root}, d \in RootWire :
        \E o \in saveDNSRR(CacheOn(saveDNSRROn), qname, <<d>>, NilRRs, now) :
            /\ WriteOn(saveDNSRROn, o.cache, "save", qname)
            /\ UNCHANGED now
            /\ UNCHANGED rvars

RootAddNX ==
    \E qname \in RootNames :
        \E c2 \in addNX(CacheOn(addNXOn), qname, now) :
            /\ WriteOn(addNXOn, c2, "addNX", qname)
            /\ UNCHANGED now
            /\ UNCHANGED rvars

RootCNAMEsAdd ==
    \E qname \in RootNames \ {Root}, d \in RootWire :
        \E c2 \in add(CacheOn(resolveCNAMEsOn), qname, convertRR(d, cache.expire).rr, now) :
            /\ WriteOn(resolveCNAMEsOn, c2, "add", qname)
            /\ UNCHANGED now
            /\ UNCHANGED rvars

\* cacheGet: the resolver's cache, then the root hints
RootGet ==
    \E qname \in RootNames :
        /\ LET own == get(cache, qname, now)
               any == IF own.nil THEN get(got.root, qname, now) ELSE own
           IN  got' = RootState(got.root, "get", qname, any)
        /\ UNCHANGED <<cache, now>>
        /\ UNCHANGED rvars

NextRoot == RootSave \/ RootAddNX \/ RootCNAMEsAdd \/ RootGet

SpecRoot == InitRoot /\ [][NextRoot]_cvars

\* C31: no statement of the resolver adds, removes or changes an entry of
\* the root hints: they stay as initialization left them
RootReadOnly == got.root = rootCache

\* The resolver has stored a record of a name of the root hints, in its own
\* cache, and a get of that name has read it from there
RootNameLearned ==
    /\ got.op = "get" /\ Has(rootCache.entries, got.key)
    /\ Positive(cache, got.key)
    /\ cache.entries[got.key] # rootCache.entries[got.key]
    /\ ~got.rrs.nil

\* C32 as stated: the capacity of every cache is at least MinCacheCapacity,
\* whatever capacity the resolver was constructed with
CapacityAtLeastMin == cache.capacity >= MinCacheCapacity

\* C32, amended: the capacity of every cache is a positive integer, the
\* capacity given at construction when that is positive, which may be less
\* than MinCacheCapacity, and MinCacheCapacity otherwise
CapacityPositive ==
    /\ cache.capacity >= 1
    /\ cache.capacity \in (1..MaxCap) \cup {MinCacheCapacity}

\* A cache constructed with capacity 0 holds entries, and its capacity is
\* MinCacheCapacity
DefaultCapacityUsed == cache.capacity = MinCacheCapacity /\ NumKeys(cache) > 0

\* ------------------------------------------------------------------ SpecChan

\* One iterateParents and the goroutines it starts, with its two channels.
\* tasks is the walk (where it is, pname, count, whether its context is
\* done) and the goroutines it started (g: what each is doing and how many
\* messages it has sent); chans holds the messages sent and not received.

\* Channels one message shorter than the goroutines of a level
ChanCapShort == MaxNameservers - 1

\* make(chan RRs, MaxNameservers), make(chan error, MaxNameservers)
ChanCap == MaxNameservers

GoroutineLost(st) == [st |-> "gone", sent |-> 0]

\* A goroutine: running exchange, holding what exchange returned, or gone
Goroutine(st) == [st |-> st, sent |-> 0]

Walk(pc, qname, qtype, pname, count, done, g) ==
    [pc |-> pc, qname |-> qname, qtype |-> qtype, pname |-> pname, count |-> count,
     done |-> done, g |-> g]

InitChan ==
    /\ cache = newCache(0, FALSE)
    /\ now = 0
    /\ got = {}
    /\ timeout = 0
    /\ \E qname \in {<<"com">>, <<"x", "com">>}, qtype \in {"A", "NS"} :
          tasks = Walk("head", qname, qtype, qname, 0, FALSE, <<>>)
    /\ chans = [rrs |-> <<>>, errs |-> <<>>]
    /\ cur = Idle(0)
    /\ last = NoLast

\* iterateParents returns: the deferred cancel runs
ChanReturn == [tasks EXCEPT !.pc = "done", !.done = TRUE]

\* The post statement of the loop over the parents
ChanAdvance ==
    LET p == parent(tasks.pname)
    IN  IF ~p.ok THEN ChanReturn
        ELSE [tasks EXCEPT !.pc = "head", !.pname = p.name]

\* After the wait loop
ChanAfterWait == IF tasks.qtype = "NS" THEN ChanReturn ELSE ChanAdvance

\* The body of the loop up to the wait loop: the name servers of pname are
\* resolved, which may end the walk, and a goroutine is started for each of
\* n of them
ChanSpawn ==
    /\ tasks.pc = "head"
    /\ IF tasks.pname = tasks.qname /\ tasks.qtype = "NS" THEN tasks' = ChanAdvance
       ELSE IF tasks.pname = Root /\ CountLabel(tasks.qname) # 1 THEN tasks' = ChanReturn
       ELSE \/ tasks' = ChanReturn
            \/ tasks' = ChanAdvance
            \/ \E n \in 0..MaxNameservers :
                  tasks' = IF n = 0
                           THEN (IF tasks.qtype = "NS" THEN ChanReturn ELSE ChanAdvance)
                           ELSE [tasks EXCEPT !.pc = "wait", !.count = n,
                                    !.g = @ \o [i \in 1..n |-> Goroutine("run")]]
    /\ UNCHANGED <<cache, now, got, timeout, chans, cur, last>>

\* select: case <-ctx.Done()
ChanWaitDone ==
    /\ tasks.pc = "wait" /\ tasks.done
    /\ tasks' = ChanReturn
    /\ UNCHANGED <<cache, now, got, timeout, chans, cur, last>>

\* select: case rrs := <-chanRRs: cancel(), resolveCNAMEs, return
ChanWaitRRs ==
    /\ tasks.pc = "wait" /\ chans.rrs # <<>>
    /\ chans' = [chans EXCEPT !.rrs = Tail(@)]
    /\ tasks' = ChanReturn
    /\ UNCHANGED <<cache, now, got, timeout, cur, last>>

\* select: case err = <-chanErrs
ChanWaitErr ==
    /\ tasks.pc = "wait" /\ chans.errs # <<>>
    /\ chans' = [chans EXCEPT !.errs = Tail(@)]
    /\ tasks' = IF Head(chans.errs) = NXDOMAIN THEN ChanReturn
                ELSE IF tasks.count > 1 THEN [tasks EXCEPT !.count = @ - 1]
                ELSE ChanAfterWait
    /\ UNCHANGED <<cache, now, got, timeout, cur, last>>

\* The caller cancels, or the deadline of the context comes
ChanCancel ==
    /\ tasks.pc # "done" /\ ~tasks.done
    /\ tasks' = [tasks EXCEPT !.done = TRUE]
    /\ UNCHANGED <<cache, now, got, timeout, chans, cur, last>>

\* exchange returns to goroutine i: records, or an error
ChanExchange ==
    \E i \in 1..Len(tasks.g), st \in {"rrs", NXDOMAIN, ErrNet} :
        /\ tasks.g[i].st = "run"
        /\ tasks' = [tasks EXCEPT !.g[i].st = st]
        /\ UNCHANGED <<cache, now, got, timeout, chans, cur, last>>

\* Goroutine i sends what exchange returned, when the channel has room, and
\* ends
ChanSend ==
    \E i \in 1..Len(tasks.g) :
        /\ tasks.g[i].st \notin {"run", "gone"}
        /\ IF tasks.g[i].st = "rrs"
           THEN /\ Len(chans.rrs) < ChanCap
                /\ chans' = [chans EXCEPT !.rrs = Append(@, "rrs")]
           ELSE /\ Len(chans.errs) < ChanCap
                /\ chans' = [chans EXCEPT !.errs = Append(@, tasks.g[i].st)]
        /\ tasks' = [tasks EXCEPT !.g[i].st = "gone", !.g[i].sent = @ + 1]
        /\ UNCHANGED <<cache, now, got, timeout, cur, last>>

NextChan ==
    \/ ChanSpawn
    \/ ChanWaitDone
    \/ ChanWaitRRs
    \/ ChanWaitErr
    \/ ChanCancel
    \/ ChanExchange
    \/ ChanSend

SpecChan == InitChan /\ [][NextChan]_vars

\* The goroutines that have not sent their message
Unsent == {i \in 1..Len(tasks.g) : tasks.g[i].st # "gone"}

\* C33: a goroutine that holds what exchange returned finds room in the
\* channel it sends on, whether or not the walk has returned; a goroutine
\* that has ended has sent one message; and the messages not sent and not
\* received of a walk are never more than MaxNameservers
SendNeverBlocks ==
    /\ \A i \in 1..Len(tasks.g) :
          /\ tasks.g[i].st = "rrs" => Len(chans.rrs) < ChanCap
          /\ tasks.g[i].st \in {NXDOMAIN, ErrNet} => Len(chans.errs) < ChanCap
          /\ tasks.g[i].sent = (IF tasks.g[i].st = "gone" THEN 1 ELSE 0)
    /\ Cardinality(Unsent) + Len(chans.rrs) + Len(chans.errs) <= MaxNameservers

\* The walk has returned and every goroutine has ended: MaxNameservers of
\* them sent after the return, errors that nobody receives
SentAfterReturn ==
    /\ tasks.pc = "done" /\ tasks.g # <<>> /\ Unsent = {}
    /\ Len(chans.errs) = MaxNameservers

\* ------------------------------------------------------------------ FairChan

\* The thread of the walk
WalkStep == ChanSpawn \/ ChanWaitDone \/ ChanWaitRRs \/ ChanWaitErr

\* SpecChan under a scheduler that lets the walk and every goroutine run, and
\* with servers that answer or fail: the resolve of the name servers of a
\* parent returns, and so does every exchange.  The context need never be
\* done.
FairChan ==
    /\ SpecChan
    /\ WF_vars(WalkStep)
    /\ WF_vars(ChanExchange)
    /\ WF_vars(ChanSend)

HostCall(pc, qname, qtype, pname, host, err) ==
    [pc |-> pc, qname |-> qname, qtype |-> qtype, pname |-> pname, host |-> host, err |-> err]

\* The cache at the call: empty, or with a negative entry that an earlier
\* call left
HostCaches ==
    {newCache(0, FALSE)}
        \cup UNION {addNX(newCache(0, FALSE), n, 0) : n \in {<<"x", "com">>, <<"com">>, NSHost(<<"com">>)}}

InitHost ==
    /\ cache \in HostCaches
    /\ now = 0
    /\ got = [nameerror |-> {}, negative |-> {}]
    /\ timeout = 0
    /\ \E qname \in {<<"com">>, <<"x", "com">>} \cup RootServers, qtype \in {"A", "NS", "CNAME"} :
          tasks = HostCall("resolve", qname, qtype, qname, Root, NoErr)
    /\ chans = NoChans
    /\ cur = Idle(0)
    /\ last = NoLast

\* The call returns err
HostDone(err) == [tasks EXCEPT !.pc = "done", !.err = err]

\* The probe of the cache for qname found its negative entry
HostNegative(qname) == [got EXCEPT !.negative = @ \cup {qname}]

\* A server answered NameError to a query for qname
HostNameError(qname) == [got EXCEPT !.nameerror = @ \cup {qname}]

\* resolve: the probe of the cache for qname, and iterateParents on a miss
HostResolve ==
    /\ tasks.pc = "resolve"
    /\ LET cg == cacheGet(cache, NoErr, tasks.qname, tasks.qtype, now)
       IN  IF cg.err = NXDOMAIN
           THEN tasks' = HostDone(NXDOMAIN) /\ got' = HostNegative(tasks.qname)
           ELSE /\ got' = got
                /\ tasks' = IF Len(cg.rrs.s) > 0 THEN HostDone(NoErr)
                            ELSE [tasks EXCEPT !.pc = "walk"]
    /\ UNCHANGED <<cache, now, timeout, chans, cur, last>>

\* The post statement of the loop of iterateParents
HostAdvance ==
    LET p == parent(tasks.pname)
    IN  IF ~p.ok THEN HostDone(ErrNoResponse)
        ELSE [tasks EXCEPT !.pc = "walk", !.pname = p.name]

\* iterateParents at pname: the name servers of pname are resolved (the
\* probe of the cache for them, or servers that are asked and that name a
\* host or fail), and a goroutine runs exchange with the host
HostWalk ==
    /\ tasks.pc = "walk"
    /\ IF tasks.pname = tasks.qname /\ tasks.qtype = "NS"
       THEN tasks' = HostAdvance /\ got' = got
       ELSE IF tasks.pname = Root /\ CountLabel(tasks.qname) # 1
       THEN tasks' = HostDone(NoErr) /\ got' = got
       ELSE LET cg == cacheGet(cache, NoErr, tasks.pname, "NS", now)
            IN  IF cg.err = NXDOMAIN
                THEN tasks' = HostDone(NXDOMAIN) /\ got' = HostNegative(tasks.pname)
                ELSE /\ got' = got
                     /\ \/ tasks' = HostAdvance
                        \/ tasks' = [tasks EXCEPT !.pc = "exchange",
                                        !.host = IF tasks.pname = Root
                                                 THEN CHOOSE h \in RootServers : TRUE
                                                 ELSE NSHost(tasks.pname)]
    /\ UNCHANGED <<cache, now, timeout, chans, cur, last>>

\* exchange: resolve(host, "A"), whose error exchange returns.  The probe of
\* the cache for the host finds a negative entry or addresses, or misses, and
\* then a server is asked for the host
HostExchange ==
    /\ tasks.pc = "exchange"
    /\ LET cg == cacheGet(cache, NoErr, tasks.host, "A", now)
       IN  IF cg.err = NXDOMAIN
           THEN tasks' = [tasks EXCEPT !.pc = "wait", !.err = NXDOMAIN]
           ELSE tasks' = [tasks EXCEPT !.pc = IF Len(cg.rrs.s) > 0 THEN "ip" ELSE "hostquery"]
    /\ UNCHANGED <<cache, now, got, timeout, chans, cur, last>>

\* The exchangeIP of that resolve: the server's reply to the query for the
\* address of the host
HostQuery ==
    /\ tasks.pc = "hostquery"
    /\ \E rmsg \in {NameError, ServFail, Answer(tasks.host, "A")} :
          IF rmsg.Rcode = RcodeNameError /\ ~hasSOA("A", rmsg, cache.expire)
          THEN /\ cache' \in addNX(cache, tasks.host, now)
               /\ got' = HostNameError(tasks.host)
               /\ tasks' = [tasks EXCEPT !.pc = "wait", !.err = NXDOMAIN]
          ELSE IF rmsg.Rcode # RcodeSuccess
          THEN /\ cache' = cache /\ got' = got
               /\ tasks' = [tasks EXCEPT !.pc = "wait", !.err = ErrNoResponse]
          ELSE /\ \E s \in saveDNSRR(cache, tasks.host, rmsg.Answer, NilRRs, now) :
                     cache' = s.cache
               /\ got' = got
               /\ tasks' = [tasks EXCEPT !.pc = "ip"]
    /\ UNCHANGED <<now, timeout, chans, cur, last>>

\* exchange with an address of the host: exchangeIP for qname, whose result
\* exchange returns when it is records, NXDOMAIN or a timeout
HostExchangeIP ==
    /\ tasks.pc = "ip"
    /\ \E rmsg \in {NameError, ServFail, Answer(tasks.qname, tasks.qtype)} :
          IF rmsg.Rcode = RcodeNameError /\ ~hasSOA(tasks.qtype, rmsg, cache.expire)
          THEN /\ cache' \in addNX(cache, tasks.qname, now)
               /\ got' = HostNameError(tasks.qname)
               /\ tasks' = [tasks EXCEPT !.pc = "wait", !.err = NXDOMAIN]
          ELSE IF rmsg.Rcode # RcodeSuccess
          THEN /\ cache' = cache /\ got' = got
               /\ tasks' = [tasks EXCEPT !.pc = "wait", !.err = ErrNoARecords]
          ELSE /\ \E s \in saveDNSRR(cache, tasks.qname, rmsg.Answer, NilRRs, now) :
                     cache' = s.cache
               /\ got' = got
               /\ tasks' = [tasks EXCEPT !.pc = "wait", !.err = NoErr]
    /\ UNCHANGED <<now, timeout, chans, cur, last>>

\* The goroutine sends what exchange returned and the wait loop receives it
HostWait ==
    /\ tasks.pc = "wait"
    /\ tasks' = IF tasks.err \in {NoErr, NXDOMAIN} THEN HostDone(tasks.err)
                ELSE IF tasks.qtype = "NS" THEN HostDone(tasks.err)
                ELSE [HostAdvance EXCEPT !.err = IF HostAdvance.pc = "done" THEN @ ELSE NoErr]
    /\ UNCHANGED <<cache, now, got, timeout, chans, cur, last>>

NextHost ==
    \/ HostResolve
    \/ HostWalk
    \/ HostExchange
    \/ HostQuery
    \/ HostExchangeIP
    \/ HostWait

SpecHost == InitHost /\ [][NextHost]_vars

\* C35: a call returns NXDOMAIN only when a server answered NameError for
\* the name of the call or for an ancestor of it, or the cache held a
\* negative entry for one of them
NXDOMAINOfName ==
    (tasks.pc = "done" /\ tasks.err = NXDOMAIN) =>
        \E n \in got.nameerror \cup got.negative : IsAncestor(n, tasks.qname)

\* ------------------------------------------------------------------ SpecExpiry

\* The cache of an expiring resolver under the writes of the resolver and
\* the clock, and cacheGet on it.  got is the last cacheGet: its arguments,
\* the entry of the name at that moment (NoEntry when there is none) and the
\* result.

NoEntry == [nil |-> FALSE, rrs |-> {NoRR}]

Lookup(qname, qtype, entry, rrs, err) ==
    [qname |-> qname, qtype |-> qtype, entry |-> entry, rrs |-> rrs, err |-> err]

InitExpiry ==
    /\ cache = newCache(0, TRUE)
    /\ now = 1
    /\ got = Lookup(Root, "", NoEntry, NilRRs, NoErr)
    /\ NoResolver

\* r.cache.add(rr.Name, rr) of saveDNSRR, for a record with or without an
\* expiry
ExpiryAdd ==
    \E rr \in CRRs :
        /\ cache' \in add(cache, rr.Name, rr, now)
        /\ UNCHANGED <<now, got>>
        /\ UNCHANGED rvars

\* r.cache.addNX(qname) of exchangeIP
ExpiryAddNX ==
    \E qname \in CKeys :
        /\ cache' \in addNX(cache, qname, now)
        /\ UNCHANGED <<now, got>>
        /\ UNCHANGED rvars

ExpiryCacheGet ==
    \E qname \in CKeys, qtype \in {"", "A", "NS"} :
        /\ LET cg == cacheGet(cache, NoErr, qname, qtype, now)
           IN  got' = Lookup(qname, qtype,
                             IF Has(cache.entries, qname) THEN cache.entries[qname] ELSE NoEntry,
                             cg.rrs, cg.err)
        /\ UNCHANGED <<cache, now>>
        /\ UNCHANGED rvars

ExpiryTick ==
    /\ now < MaxNow
    /\ now' = now + 1
    /\ UNCHANGED <<cache, got>>
    /\ UNCHANGED rvars

NextExpiry == ExpiryAdd \/ ExpiryAddNX \/ ExpiryCacheGet \/ ExpiryTick

SpecExpiry == InitExpiry /\ [][NextExpiry]_cvars

\* C36: in expiry mode cacheGet returns NXDOMAIN only for a negative entry,
\* one that addNX made, and never for an entry with records that have all
\* expired
ExpiredIsUnknown == got.err = NXDOMAIN => got.entry = NilEntry

\* C37: exchangeIP never goes on to read the RCODE of a reply that is
\* missing: when the retry over TCP fails it returns the error or works with
\* the truncated reply it got over UDP
RetryFailureHandled == tasks.err # NilDereference

\* C38: once a call has returned, no goroutine that was started for it
\* writes to the cache: a step in which exchangeIP changes the cache is a
\* step for the call in progress
NoLateWrite ==
    [][\A t \in DOMAIN tasks :
          (Saved(t) /\ cache' # cache) => (cur.active /\ tasks[t].call = cur.n)]_vars

\* C39: the resolver's cache never holds a negative entry for a name of the
\* root hints, so that cacheGet never reports such a name as NXDOMAIN
RootNameNeverNX ==
    \A n \in DOMAIN rootCache.entries :
        ~Negative(cache, n) /\ cacheGet(cache, NoErr, n, "", now).err # NXDOMAIN

====
